---- MODULE Spec2Model ----
(***************************************************************************)
(* I-MusicExtractor: metadata reader, filename sanitizer, album/art        *)
(* resolver and folder organizer, modelled from I-MusicExtractor.py and    *)
(* I-MusicExtractor-GUI.py.                                                *)
(*                                                                         *)
(* Strings are sequences of one-character strings, so that replace(),      *)
(* lower(), strip() and substring tests are computed character by          *)
(* character as Python computes them.                                      *)
(***************************************************************************)
EXTENDS Integers, Sequences, FiniteSets, TLC

VARIABLES
    pc,              \* position of the operation under way
    \* ---- sanitize_filename harness
    name,            \* argument of sanitize_filename
    sanitized,       \* sanitize_filename(name)
    resanitized,     \* sanitize_filename(sanitized)
    \* ---- extract_metadata harness
    file_path,       \* the audio file handed to extract_metadata
    metadata,        \* its return value
    \* ---- extract-and-organize (main / run_extract_organize)
    opts,            \* the options of the run and the front end that runs it
    source,          \* the files of the source directory, in glob order
    in_source,       \* names of the source files still in the source directory
    dest_exists,     \* the destination root directory exists
    dest_dirs,       \* artist and album directories under the destination
    dest_files,      \* audio files under the destination: path -> content
    covers,          \* album directories that hold a cover.jpg
    run,             \* 1 for the first run, 2 for the rerun
    listing,         \* what source_dir.glob("*.*") yields in this run
    idx,             \* number of files of listing already processed
    processed_files, \* signatures seen in this run
    duplicate_count, \* duplicates counted in this run
    art_cache,       \* cache key -> image found online
    log,             \* what happened to each file of this run, in order
    before,          \* the destination and source as they were when the run began
    \* ---- search_album_info
    mb,              \* the primary catalog's answer to the recording query
    lastfm,          \* the secondary catalog's answer to track.getInfo
    queried,         \* the catalogs queried so far, in order
    scored,          \* every release examined, with the score given to it
    album_result,    \* the value search_album_info returns
    \* ---- search_album_art_online
    art_env,         \* the album argument and the answers of the five sources
    art_queried,     \* the sources queried so far, in order
    art_result,      \* the value search_album_art_online returns
    \* ---- find_and_organize_unknowns / find_unknown_albums_optimized
    album_cache,     \* cache key -> album found for it (or the not-found mark)
    unknown_files,   \* the audio files found in Unknown Album folders, in order
    songs_to_lookup, \* cache keys still to prefetch (GUI)
    lookups,         \* the cache keys search_album_info was called with, in order
    files_with_found_albums, \* the counter the operation returns
    rec_result,      \* the value the operation returns
    \* ---- the clean-empty operation
    cleaned,         \* one entry for each cleanup run so far
    \* ---- find_and_attach_album_art / find_and_attach_with_cache
    catalog,         \* what the art sources answer to each query of the pass
    \* ---- the window: MusicExtractorGUI and its RedirectText
    gui,             \* widget states, worker threads and Tk's timer queue
    redirector       \* the RedirectText object and the console widget

sanVars  == <<name, sanitized, resanitized>>
metaVars == <<file_path, metadata>>
fsVars   == <<in_source, dest_exists, dest_dirs, dest_files, covers>>
orgVars  == <<opts, source, fsVars, run, listing, idx, processed_files,
              duplicate_count, art_cache, log, before>>
albumVars == <<mb, lastfm, queried, scored, album_result>>
artVars == <<art_env, art_queried, art_result>>
recVars == <<album_cache, unknown_files, songs_to_lookup, lookups,
             files_with_found_albums, rec_result>>
cleanVars == <<cleaned>>
attachVars == <<catalog>>
guiVars == <<gui, redirector>>
vars == <<pc, sanVars, metaVars, orgVars, albumVars, artVars, recVars,
          cleanVars, attachVars, guiVars>>

NoStr  == <<>>                  \* value of a string variable not yet assigned
NoFile == [stem |-> <<>>]       \* value of a file variable not in use
NoMeta == [pending |-> TRUE]    \* value of a metadata variable not yet assigned

---------------------------------------------------------------------------
(* Bounds *)

MaxLen == 2          \* longest string handed to sanitize_filename
MaxFiles == 2        \* most files in the source directory
MaxRecordings == 2   \* most recordings in a primary-catalog answer

---------------------------------------------------------------------------
(* Python string primitives on character sequences *)

Str(n, alphabet) == UNION {[1..k -> alphabet] : k \in 0..n}

\* str.replace(old, new) for a one-character old
Replace(s, old, new) == [i \in DOMAIN s |-> IF s[i] = old THEN new ELSE s[i]]

\* str.lower() on the letters the model uses
LowerChar(c) ==
    CASE c = "A" -> "a" [] c = "B" -> "b" [] c = "D" -> "d"
      [] c = "T" -> "t" [] c = "U" -> "u" [] c = "X" -> "x"
      [] OTHER -> c
Lower(s) == [i \in DOMAIN s |-> LowerChar(s[i])]

\* Python's `p in s`
Contains(s, p) ==
    \E i \in 0..(Len(s) - Len(p)) : SubSeq(s, i + 1, i + Len(p)) = p

\* s.replace(p, "") : every non-overlapping occurrence, left to right
RECURSIVE Remove(_, _)
Remove(s, p) ==
    IF p = <<>> \/ Len(s) < Len(p) THEN s
    ELSE IF SubSeq(s, 1, Len(p)) = p
         THEN Remove(SubSeq(s, Len(p) + 1, Len(s)), p)
         ELSE <<Head(s)>> \o Remove(Tail(s), p)

\* str.strip()
RECURSIVE LStrip(_)
LStrip(s) == IF s # <<>> /\ Head(s) = " " THEN LStrip(Tail(s)) ELSE s
RECURSIVE RStrip(_)
RStrip(s) ==
    IF s # <<>> /\ s[Len(s)] = " " THEN RStrip(SubSeq(s, 1, Len(s) - 1)) ELSE s
Strip(s) == RStrip(LStrip(s))

UnknownTitle  == <<"U","n","k","n","o","w","n"," ","T","i","t","l","e">>
UnknownArtist == <<"U","n","k","n","o","w","n"," ","A","r","t","i","s","t">>
UnknownAlbum  == <<"U","n","k","n","o","w","n"," ","A","l","b","u","m">>

---------------------------------------------------------------------------
(* sanitize_filename *)

invalid_chars == <<"<", ">", ":", "\"", "/", "\\", "|", "?", "*">>

RECURSIVE SanitizeFrom(_, _, _)
SanitizeFrom(s, chars, k) ==
    IF k > Len(chars) THEN s
    ELSE SanitizeFrom(Replace(s, chars[k], "_"), chars, k + 1)

\* a sanitizer whose character list lost its '|' entry
sanitize_filename_nopipe(s) ==
    SanitizeFrom(s, SelectSeq(invalid_chars, LAMBDA c : c # "|"), 1)

sanitize_filename(s) == SanitizeFrom(s, invalid_chars, 1)

SanAlphabet == {"a", "_"} \cup {invalid_chars[k] : k \in DOMAIN invalid_chars}

---------------------------------------------------------------------------
(* extract_metadata *)

Raised == [raised |-> TRUE]     \* an exception leaving the function

\* f.audio is the tag dictionary mutagen returns: a function from the keys
\* present in the file to their first value.  "title", "artist", "album"
\* stand for the EasyID3 keys and for the atoms (c)nam, (c)ART, (c)alb;
\* "aart" stands for the atom aART.
Has(f, key) == key \in DOMAIN f.audio

FileDefaults(f) ==
    [title |-> f.stem, artist |-> UnknownArtist, album |-> UnknownAlbum]

Mp3Tags(f) ==
    LET title  == IF Has(f, "title") THEN f.audio["title"] ELSE UnknownTitle
        artist == IF Has(f, "artist") THEN f.audio["artist"] ELSE UnknownArtist
        rest   == Strip(Remove(f.stem, title))
        album  == IF Has(f, "album") THEN f.audio["album"]
                  ELSE IF Contains(Lower(f.stem), Lower(title))
                       THEN (IF rest = <<>> THEN UnknownAlbum ELSE rest)
                       ELSE UnknownAlbum
    IN  [title |-> title, artist |-> artist, album |-> album]

\* extract_metadata_mp3 without its generic `except Exception` handler
extract_metadata_mp3_nocatch(f) ==
    IF f.read = "ok" THEN Mp3Tags(f)
    ELSE IF f.read = "noheader" THEN FileDefaults(f)
    ELSE Raised

extract_metadata_mp3(f) ==
    IF f.read = "ok" THEN Mp3Tags(f)
    ELSE IF f.read = "noheader" THEN FileDefaults(f)   \* except ID3NoHeaderError
    ELSE FileDefaults(f)                               \* except Exception

extract_metadata_m4a(f) ==
    IF f.read = "ok" THEN
        [title  |-> IF Has(f, "title") THEN f.audio["title"] ELSE UnknownTitle,
         artist |-> IF Has(f, "artist") THEN f.audio["artist"]
                    ELSE IF Has(f, "aart") THEN f.audio["aart"]
                    ELSE UnknownArtist,
         album  |-> IF Has(f, "album") THEN f.audio["album"] ELSE UnknownAlbum]
    ELSE FileDefaults(f)                               \* except Exception

SuffixLower(x) == IF x = ".MP3" THEN ".mp3" ELSE x

extract_metadata(f) ==
    IF SuffixLower(f.suffix) = ".mp3" THEN extract_metadata_mp3(f)
    ELSE IF SuffixLower(f.suffix) = ".m4a" THEN extract_metadata_m4a(f)
    ELSE FileDefaults(f)

\* the files handed to the metadata reader
MetaStems   == {<<"x">>, <<"T">>, <<"t", " ", "B">>}
MetaTitles  == {<<"T">>, <<"T", "?">>}
MetaArtists == {<<"D">>}
MetaAlbums  == {<<"B">>, UnknownAlbum}
Suffixes    == {".mp3", ".MP3", ".m4a", ".wav"}
ReadOutcomes == {"ok", "noheader", "error"}
TagKeys     == {"title", "artist", "aart", "album"}

Restrict(fn, keys) == [k \in keys |-> fn[k]]

TagDicts ==
    {Restrict(full, keys) :
        full \in [title : MetaTitles, artist : MetaArtists,
                  aart : MetaArtists, album : MetaAlbums],
        keys \in SUBSET TagKeys}

MetaFiles ==
    [stem : MetaStems, suffix : Suffixes, read : ReadOutcomes, audio : TagDicts]

\* tags cannot be read: no header, parse error, or unsupported extension
Unreadable(f) ==
    \/ f.read # "ok"
    \/ SuffixLower(f.suffix) \notin {".mp3", ".m4a"}

SanIdle  == name = NoStr /\ sanitized = NoStr /\ resanitized = NoStr
MetaIdle == file_path = NoFile /\ metadata = NoMeta
OrgIdle ==
    /\ opts = [front |-> "none"] /\ source = <<>> /\ in_source = {}
    /\ dest_exists = FALSE /\ dest_dirs = {} /\ dest_files = <<>>
    /\ covers = {} /\ run = 0 /\ listing = <<>> /\ idx = 0
    /\ processed_files = <<>> /\ duplicate_count = 0 /\ art_cache = <<>>
    /\ log = <<>> /\ before = [none |-> TRUE]

AlbumIdle ==
    /\ mb = [outcome |-> "none"] /\ lastfm = [outcome |-> "none"]
    /\ queried = <<>> /\ scored = <<>> /\ album_result = ""

ArtIdle ==
    art_env = [album |-> ""] /\ art_queried = <<>> /\ art_result = "none"

RecIdle ==
    /\ album_cache = <<>> /\ unknown_files = <<>> /\ songs_to_lookup = {}
    /\ lookups = <<>> /\ files_with_found_albums = 0 /\ rec_result = -1

CleanIdle == cleaned = <<>>
AttachIdle == catalog = <<>>
GuiIdle == gui = <<>> /\ redirector = <<>>

---------------------------------------------------------------------------
(* The destination tree                                                    *)
(*   a directory is <<artist>> or <<artist, album>>;                       *)
(*   an audio file's path is <<artist, album, title, suffix>>, its name    *)
(*   being title + suffix;                                                 *)
(*   a file's content is [id, art]: the source file it is a copy of and    *)
(*   whether it carries embedded album art.                                *)

EmptyFn == [x \in {} |-> TRUE]
Put(fn, k, v) == [x \in DOMAIN fn \cup {k} |-> IF x = k THEN v ELSE fn[x]]
NoPath == <<>>
NoImage == "none"           \* Python's None for image bytes

\* path.name starts with '.'
Hidden(title) == title # <<>> /\ title[1] = "."

FilesIn(files, d) == {q \in DOMAIN files : q[1] = d[1] /\ q[2] = d[2]}

\* [f for f in unknown_album_dir.iterdir() if not f.name.startswith('.')]
Items(files, cov, d) ==
    {<<"file", q>> : q \in {q \in FilesIn(files, d) : ~Hidden(q[3])}}
        \cup (IF d \in cov THEN {<<"cover", d>>} ELSE {})

UnknownDirs(dirs) ==
    {d \in dirs : Len(d) = 2 /\ <<d[1]>> \in dirs /\ d[2] = UnknownAlbum}

\* the cleanup with its simulate argument ignored
clean_empty_unknown_album_folders_nosimulate(dirs, files, cov, simulate) ==
    LET empty == {d \in UnknownDirs(dirs) : Items(files, cov, d) = {}}
        gone  == {d \in empty : FilesIn(files, d) = {}}
    IN  [dirs |-> dirs \ gone, removed_count |-> Cardinality(gone)]

\* the count taken before rmdir() is tried
clean_empty_unknown_album_folders_counted(dirs, files, cov, simulate) ==
    LET empty == {d \in UnknownDirs(dirs) : Items(files, cov, d) = {}}
        gone  == {d \in empty : FilesIn(files, d) = {}}
    IN  IF simulate
        THEN [dirs |-> dirs, removed_count |-> Cardinality(empty)]
        ELSE [dirs |-> dirs \ gone, removed_count |-> Cardinality(empty)]

\* clean_empty_unknown_album_folders: the directories left and the count
\* returned.  rmdir() raises on a folder that still holds hidden entries;
\* the exception is caught and the folder is not counted.
clean_empty_unknown_album_folders(dirs, files, cov, simulate) ==
    LET empty == {d \in UnknownDirs(dirs) : Items(files, cov, d) = {}}
        gone  == {d \in empty : FilesIn(files, d) = {}}
    IN  IF simulate
        THEN [dirs |-> dirs, removed_count |-> Cardinality(empty)]
        ELSE [dirs |-> dirs \ gone, removed_count |-> Cardinality(gone)]

---------------------------------------------------------------------------
(* extract-and-organize: main() of I-MusicExtractor.py and                 *)
(* run_extract_organize() of I-MusicExtractor-GUI.py                       *)

supported_extensions == {".mp3", ".m4a"}

Join3(a, b, c) == a \o <<"|">> \o b \o <<"|">> \o c
Join2(a, b) == a \o <<"|">> \o b

\* a signature built from the tags as read, before sanitizing
file_signature_raw(f) ==
    LET md == extract_metadata(f)
    IN  Join3(md.artist, md.album, md.title)

\* file_signature = f"{artist_name}|{album_name}|{title_name}"
file_signature(f) ==
    LET md == extract_metadata(f)
    IN  Join3(sanitize_filename(md.artist), sanitize_filename(md.album),
              sanitize_filename(md.title))

\* dest_dir / artist_name / album_name / f"{title_name}{file.suffix}"
DestPath(f) ==
    LET md == extract_metadata(f)
    IN  <<sanitize_filename(md.artist), sanitize_filename(md.album),
          sanitize_filename(md.title), f.suffix>>

\* ---- the files a source directory may hold

Tags(t, a, al) == [title |-> t, artist |-> a, album |-> al]
SrcFile(id, stem, suffix, read, audio, art) ==
    [id |-> id, stem |-> stem, suffix |-> suffix, read |-> read,
     audio |-> audio, art |-> art]

SourcePool ==
    { SrcFile("x.mp3", <<"x">>, ".mp3", "ok", Tags(<<"T", "?">>, <<"D">>, <<"B">>), TRUE),
      SrcFile("y.m4a", <<"y">>, ".m4a", "ok", Tags(<<"T", "_">>, <<"D">>, <<"B">>), FALSE),
      SrcFile("z.mp3", <<"z">>, ".mp3", "ok", Tags(<<"T", "_">>, <<"D">>, <<"B">>), FALSE),
      SrcFile("v.mp3", <<"v">>, ".mp3", "ok",
              [title |-> <<"U">>, artist |-> <<"D">>], FALSE),
      SrcFile("n.wav", <<"n">>, ".wav", "ok", EmptyFn, FALSE) }

FileIds == {f.id : f \in SourcePool}
File == [id \in FileIds |-> CHOOSE f \in SourcePool : f.id = id]

\* what the loop body derives from each file of the pool
Meta == [id \in FileIds |-> extract_metadata(File[id])]
Sig  == [id \in FileIds |-> file_signature(File[id])]
Dest == [id \in FileIds |-> DestPath(File[id])]

InSeq(x, seq) == \E k \in DOMAIN seq : seq[k] = x

\* extract_and_save_album_art: writes cover.jpg when the file carries art
\* and the album directory has no cover yet
extract_and_save_album_art(f, album_dir, cov) ==
    IF SuffixLower(f.suffix) \in supported_extensions /\ f.read = "ok" /\ f.art
    THEN cov \cup {album_dir}
    ELSE cov

\* has_album_art: an unreadable file raises inside and yields False
has_album_art(content) == content.art

\* attach_album_art returns False when the tags cannot be written
attach_album_art(f) == f.read # "error"

LogEntry(f, dup, outcome) == [id |-> f.id, dup |-> dup, outcome |-> outcome]

\* the test below with the existence check lost
MustSkipExisting_never(dest_path, force) == FALSE /\ ~force

\* dest_path.exists() and not args.force
MustSkipExisting(dest_path, force) == dest_path \in DOMAIN dest_files /\ ~force

\* the search below looking into the Unknown Album folder itself
SongAlreadyExists_samefolder(artist_name, album_name, title_name, suffix) ==
    /\ album_name = UnknownAlbum
    /\ \E d \in dest_dirs :
          /\ Len(d) = 2 /\ d[1] = artist_name /\ d[2] = UnknownAlbum
          /\ <<artist_name, d[2], title_name, suffix>> \in DOMAIN dest_files

\* lines 1265-1274: for a file without an album, is there a file
\* <title><suffix> in another album folder of the artist
SongAlreadyExists(artist_name, album_name, title_name, suffix) ==
    /\ album_name = UnknownAlbum
    /\ \E d \in dest_dirs :
          /\ Len(d) = 2 /\ d[1] = artist_name /\ d[2] # UnknownAlbum
          /\ <<artist_name, d[2], title_name, suffix>> \in DOMAIN dest_files

\* One iteration of `for file in source_dir.glob("*.*")`.
\* honour_simulate: the copy/move and the tagging are guarded by
\* `not simulate` (GUI) or are not guarded at all (command line).
OrganizeFile(f, honour_simulate) ==
    LET md          == Meta[f.id]
        dest_path   == Dest[f.id]
        artist_name == dest_path[1]
        album_name  == dest_path[2]
        title_name  == dest_path[3]
        sig         == Sig[f.id]
        is_dup      == InSeq(sig, processed_files)
        artist_dir  == <<artist_name>>
        album_dir   == <<artist_name, album_name>>
        song_already_exists ==
            SongAlreadyExists(artist_name, album_name, title_name, f.suffix)
        simulate    == honour_simulate /\ opts.simulate
        cache_key   == Join2(md.artist, md.album)
        copied      == [id |-> f.id, art |-> f.art /\ f.read = "ok"]
        Skip(dup, outcome, dirs, cov, seen) ==
            /\ log' = Append(log, LogEntry(f, dup, outcome))
            /\ dest_dirs' = dirs
            /\ covers' = cov
            /\ processed_files' = seen
            /\ UNCHANGED <<dest_files, in_source, art_cache>>
    IN
    /\ idx' = idx + 1
    /\ duplicate_count' = IF SuffixLower(f.suffix) \in supported_extensions /\ is_dup
                          THEN duplicate_count + 1 ELSE duplicate_count
    /\ IF SuffixLower(f.suffix) \notin supported_extensions
       THEN Skip(FALSE, "unsupported", dest_dirs, covers, processed_files)
       ELSE IF is_dup /\ ~opts.force
       THEN Skip(TRUE, "duplicate", dest_dirs, covers, processed_files)
       ELSE IF song_already_exists /\ ~opts.force
       THEN Skip(is_dup, "already_filed", dest_dirs \cup {artist_dir}, covers,
                 Append(processed_files, sig))
       ELSE
       LET cov == IF opts.extract_art
                  THEN extract_and_save_album_art(f, album_dir, covers)
                  ELSE covers
           dirs == dest_dirs \cup {artist_dir, album_dir}
           seen == Append(processed_files, sig)
       IN  IF MustSkipExisting(dest_path, opts.force)
           THEN Skip(is_dup, "exists", dirs, cov, seen)
           ELSE IF simulate
           THEN Skip(is_dup, "simulated", dirs, cov, seen)
           ELSE
           /\ dest_dirs' = dirs
           /\ covers' = cov
           /\ processed_files' = seen
           /\ in_source' = IF opts.move THEN in_source \ {f.id} ELSE in_source
           /\ log' = Append(log, LogEntry(f, is_dup,
                                IF opts.move THEN "moved" ELSE "copied"))
           /\ IF opts.attach_art /\ ~has_album_art(copied)
              THEN IF cache_key \in DOMAIN art_cache
                   THEN /\ UNCHANGED art_cache
                        /\ dest_files' = Put(dest_files, dest_path,
                              [copied EXCEPT !.art = attach_album_art(f)])
                   ELSE \E image_data \in {NoImage, "jpeg"} :
                        /\ art_cache' = IF image_data # NoImage
                                        THEN Put(art_cache, cache_key, image_data)
                                        ELSE art_cache
                        /\ dest_files' = Put(dest_files, dest_path,
                              [copied EXCEPT !.art = image_data # NoImage
                                                     /\ attach_album_art(f)])
              ELSE /\ UNCHANGED art_cache
                   /\ dest_files' = Put(dest_files, dest_path, copied)

Snapshot(src, exists, dirs, files, cov) ==
    [in_source |-> src, dest_exists |-> exists, dest_dirs |-> dirs,
     dest_files |-> files, covers |-> cov]

Glob(seq, present) == SelectSeq(seq, LAMBDA id : id \in present)

\* The handler up to its loop: the source directory exists, the destination
\* root is created when missing, the run's lists and counters are set up.
\* keep_cache: the GUI's art cache lives as long as the window does.
OrganizeBegin(keep_cache) ==
    /\ pc = "org_start"
    /\ dest_exists' = TRUE
    /\ listing' = Glob(source, in_source)
    /\ idx' = 0
    /\ processed_files' = <<>>
    /\ duplicate_count' = 0
    /\ log' = <<>>
    /\ art_cache' = IF keep_cache THEN art_cache ELSE EmptyFn
    /\ pc' = "org_loop"
    /\ UNCHANGED <<opts, source, in_source, dest_dirs, dest_files, covers, run,
                   before>>

OrganizeLoop(honour_simulate) ==
    /\ pc = "org_loop"
    /\ idx < Len(listing)
    /\ OrganizeFile(File[listing[idx + 1]], honour_simulate)
    /\ UNCHANGED <<pc, opts, source, dest_exists, run, listing, before>>

\* After the loop: the duplicate summary, then the cleanup of empty
\* Unknown Album folders.
OrganizeEnd(clean, simulate) ==
    /\ pc = "org_loop"
    /\ idx = Len(listing)
    /\ dest_dirs' = IF clean
                    THEN clean_empty_unknown_album_folders(
                             dest_dirs, dest_files, covers, simulate).dirs
                    ELSE dest_dirs
    /\ pc' = "org_done"
    /\ UNCHANGED <<opts, source, in_source, dest_exists, dest_files, covers,
                   run, listing, idx, processed_files, duplicate_count,
                   art_cache, log, before>>

\* main() of I-MusicExtractor.py in its default (extract-and-organize) mode
main_begin == opts.front = "cli" /\ OrganizeBegin(FALSE)
main_file  == opts.front = "cli" /\ OrganizeLoop(FALSE)
main_end   == opts.front = "cli" /\ OrganizeEnd(~opts.keep_empty, opts.simulate)

\* run_main() of MusicExtractorGUI.run_extract_organize
run_main_begin == opts.front = "gui" /\ OrganizeBegin(TRUE)
run_main_file  == opts.front = "gui" /\ OrganizeLoop(TRUE)
run_main_end   ==
    opts.front = "gui" /\ OrganizeEnd(~opts.keep_empty /\ ~opts.simulate, FALSE)

\* the user starts the same operation a second time
RunAgain ==
    /\ pc = "org_done"
    /\ run = 1
    /\ run' = 2
    /\ before' = Snapshot(in_source, dest_exists, dest_dirs, dest_files, covers)
    /\ pc' = "org_start"
    /\ UNCHANGED <<opts, source, fsVars, listing, idx, processed_files,
                   duplicate_count, art_cache, log>>

\* ---- the source directories and destinations a run starts from

\* sequences of distinct file names
Listings(n) ==
    UNION {{q \in [1..k -> FileIds] :
               \A a, b \in 1..k : a # b => q[a] # q[b]} : k \in 0..n}

Old == [id |-> "old", art |-> TRUE]
PrePaths == {<<<<"D">>, <<"B">>, <<"T", "_">>, ".mp3">>,
             <<<<"D">>, <<"R">>, <<"U">>, ".mp3">>}
ParentDirs(paths) == {<<q[1]>> : q \in paths} \cup {<<q[1], q[2]>> : q \in paths}

Options ==
    [front : {"cli", "gui"}, move : BOOLEAN, force : BOOLEAN,
     simulate : BOOLEAN, extract_art : BOOLEAN, attach_art : BOOLEAN,
     keep_empty : BOOLEAN]

InitOrganize ==
    /\ pc = "org_start"
    /\ opts \in Options
    /\ source \in Listings(MaxFiles)
    /\ in_source = {source[k] : k \in DOMAIN source}
    /\ \E paths \in SUBSET PrePaths, stale \in SUBSET {<<<<"D">>, UnknownAlbum>>} :
          /\ dest_files = [q \in paths |-> Old]
          /\ dest_dirs = ParentDirs(paths) \cup
                         (IF paths # {} THEN stale ELSE {})
          /\ dest_exists \in (IF paths = {} THEN BOOLEAN ELSE {TRUE})
    /\ covers = {}
    /\ run = 1
    /\ listing = <<>>
    /\ idx = 0
    /\ processed_files = <<>>
    /\ duplicate_count = 0
    /\ art_cache = EmptyFn
    /\ log = <<>>
    /\ before = Snapshot(in_source, dest_exists, dest_dirs, dest_files, covers)
    /\ SanIdle /\ MetaIdle /\ AlbumIdle /\ ArtIdle /\ RecIdle /\ CleanIdle
    /\ AttachIdle /\ GuiIdle

NextOrganize ==
    \/ (main_begin \/ main_file \/ main_end)
          /\ UNCHANGED <<sanVars, metaVars, albumVars, artVars, recVars, cleanVars,
                         attachVars, guiVars>>
    \/ (run_main_begin \/ run_main_file \/ run_main_end)
          /\ UNCHANGED <<sanVars, metaVars, albumVars, artVars, recVars, cleanVars,
                         attachVars, guiVars>>
    \/ RunAgain /\ UNCHANGED <<sanVars, metaVars, albumVars, artVars, recVars, cleanVars,
                               attachVars, guiVars>>

SpecOrganize == InitOrganize /\ [][NextOrganize]_vars

---------------------------------------------------------------------------
(* search_album_info                                                       *)
(*   mb     = [outcome, recordings]: "ok" is HTTP 200 with a JSON body,    *)
(*            "http" any other status, "exc" an exception raised by the    *)
(*            request or while the body is read;                           *)
(*   a recording is [score, releases]; a release is [title, status,        *)
(*   group], group being "none" when the release has no "release-group"    *)
(*   key, else the primary type with "+Compilation" appended when the      *)
(*   secondary types include "Compilation";                                *)
(*   lastfm = [outcome, album], album "" when the track has no album.      *)

NoAlbum == ""               \* Python's None for an album name

HasGroup(release)      == release.group # "none"
PrimaryType(release)   ==
    IF release.group \in {"Album", "Album+Compilation"} THEN "Album"
    ELSE IF release.group \in {"Single", "Single+Compilation"} THEN "Single"
    ELSE "none"
IsCompilation(release) ==
    release.group \in {"Album+Compilation", "Single+Compilation"}

Bonus(cond, points) == IF cond THEN points ELSE 0

\* the score with the compilation penalty taken out of the Album branch
release_score_flat(recording_score, release) ==
    recording_score
      + Bonus(release.status = "Official", 30)
      + Bonus(HasGroup(release) /\ PrimaryType(release) = "Album", 20)
      - Bonus(HasGroup(release) /\ IsCompilation(release), 15)

\* lines 274-288: the score given to one release
release_score(recording_score, release) ==
    recording_score
      + Bonus(release.status = "Official", 30)
      + (IF HasGroup(release) /\ PrimaryType(release) = "Album"
         THEN 20 - Bonus(IsCompilation(release), 15)
         ELSE 0)

\* sorted(recordings, key=score, reverse=True): stable, so recordings of
\* equal score keep the order of the answer
RECURSIVE InsertByScore(_, _)
InsertByScore(sorted, r) ==
    IF sorted = <<>> THEN <<r>>
    ELSE IF Head(sorted).score >= r.score
         THEN <<Head(sorted)>> \o InsertByScore(Tail(sorted), r)
         ELSE <<r>> \o sorted

RECURSIVE SortedByScore(_)
SortedByScore(recordings) ==
    IF recordings = <<>> THEN <<>>
    ELSE InsertByScore(SortedByScore(SubSeq(recordings, 1, Len(recordings) - 1)),
                       recordings[Len(recordings)])

\* the loop below without its `if recording_score < 50: continue`
RECURSIVE Examined_all(_)
Examined_all(sorted_recordings) ==
    IF sorted_recordings = <<>> THEN <<>>
    ELSE LET recording == Head(sorted_recordings)
         IN  [k \in DOMAIN recording.releases |->
                 [recording_score |-> recording.score,
                  release |-> recording.releases[k],
                  release_score |->
                      release_score(recording.score, recording.releases[k])]]
             \o Examined_all(Tail(sorted_recordings))

\* the releases the loop examines, in order, each with its score
RECURSIVE Examined(_)
Examined(sorted_recordings) ==
    IF sorted_recordings = <<>> THEN <<>>
    ELSE LET recording == Head(sorted_recordings)
         IN  (IF recording.score < 50 THEN <<>>
              ELSE [k \in DOMAIN recording.releases |->
                       [recording_score |-> recording.score,
                        release |-> recording.releases[k],
                        release_score |->
                            release_score(recording.score,
                                          recording.releases[k])]])
             \o Examined(Tail(sorted_recordings))

\* the comparison below with >= : a later release of equal score wins
RECURSIVE BestOf_atleast(_, _)
BestOf_atleast(best, examined) ==
    IF examined = <<>> THEN best
    ELSE BestOf_atleast(IF Head(examined).release_score >= best.score
                        THEN [album |-> Head(examined).release.title,
                              score |-> Head(examined).release_score]
                        ELSE best,
                        Tail(examined))

\* a later release replaces the best so far only with a greater score
RECURSIVE BestOf(_, _)
BestOf(best, examined) ==
    IF examined = <<>> THEN best
    ELSE BestOf(IF Head(examined).release_score > best.score
                THEN [album |-> Head(examined).release.title,
                      score |-> Head(examined).release_score]
                ELSE best,
                Tail(examined))

NoBest == [album |-> NoAlbum, score |-> 0]

\* the threshold test with >= in place of >
GoodMatch_atleast(best) == best.album # NoAlbum /\ best.score >= 70

\* if best_album and best_album_score > 70
GoodMatch(best) == best.album # NoAlbum /\ best.score > 70

\* lines 245-312: what the primary catalog's answer gives, NoAlbum when the
\* code falls through to the secondary catalog
FromMusicBrainz(response) ==
    IF response.outcome # "ok" \/ response.recordings = <<>> THEN NoAlbum
    ELSE LET sorted_recordings == SortedByScore(response.recordings)
             best == BestOf(NoBest, Examined(sorted_recordings))
         IN  IF GoodMatch(best) THEN best.album
             ELSE IF sorted_recordings[1].releases # <<>>
                  THEN sorted_recordings[1].releases[1].title
                  ELSE NoAlbum

\* lines 324-330
FromLastFm(response) ==
    IF response.outcome = "ok" THEN response.album ELSE NoAlbum

\* lines 227-312: the request to the primary catalog and the selection
QueryMusicBrainz ==
    /\ pc = "album_primary"
    /\ queried' = Append(queried, "musicbrainz")
    /\ scored' = IF mb.outcome = "ok"
                 THEN Examined(SortedByScore(mb.recordings)) ELSE <<>>
    /\ album_result' = FromMusicBrainz(mb)
    /\ pc' = IF mb.outcome = "exc" \/ FromMusicBrainz(mb) # NoAlbum
             THEN "album_done"            \* except Exception / return
             ELSE "album_secondary"
    /\ UNCHANGED <<mb, lastfm>>

\* lines 314-337: the request to the secondary catalog
QueryLastFm ==
    /\ pc = "album_secondary"
    /\ queried' = Append(queried, "lastfm")
    /\ album_result' = FromLastFm(lastfm)
    /\ pc' = "album_done"
    /\ UNCHANGED <<mb, lastfm, scored>>

\* ---- the answers the catalogs may give

Scores == {45, 50, 90}
ReleaseShapes ==
    [status : {"Official", "Bootleg"},
     group : {"none", "Album", "Album+Compilation", "Single+Compilation"}]
ReleaseLists ==
    {<<>>} \cup {<<r>> : r \in ReleaseShapes}
           \cup {<<[status |-> "Bootleg", group |-> "none"], r>> :
                    r \in {[status |-> "Official", group |-> "Album"],
                           [status |-> "Bootleg", group |-> "Album"]}}
RecordingShapes == [score : Scores, releases : ReleaseLists]

\* every release gets a title of its own: recording k, release j
TitleAt == <<<<"a1", "a2">>, <<"b1", "b2">>, <<"c1", "c2">>, <<"d1", "d2">>>>
Titled(shapes) ==
    [k \in DOMAIN shapes |->
        [score |-> shapes[k].score,
         releases |-> [j \in DOMAIN shapes[k].releases |->
                          [title |-> TitleAt[k][j],
                           status |-> shapes[k].releases[j].status,
                           group |-> shapes[k].releases[j].group]]]]

Answers(n) ==
    {Titled(shapes) : shapes \in UNION {[1..k -> RecordingShapes] : k \in 0..n}}

InitAlbum ==
    /\ pc = "album_primary"
    /\ \/ mb \in [outcome : {"ok"}, recordings : Answers(MaxRecordings)]
       \/ mb \in [outcome : {"http", "exc"}, recordings : {<<>>}]
    /\ \/ lastfm \in [outcome : {"ok"}, album : {NoAlbum, "L"}]
       \/ lastfm \in [outcome : {"http", "exc"}, album : {NoAlbum}]
    /\ queried = <<>>
    /\ scored = <<>>
    /\ album_result = NoAlbum
    /\ SanIdle /\ MetaIdle /\ OrgIdle /\ ArtIdle /\ RecIdle /\ CleanIdle
    /\ AttachIdle /\ GuiIdle

NextAlbum ==
    (QueryMusicBrainz \/ QueryLastFm) /\ UNCHANGED <<sanVars, metaVars, orgVars, artVars, recVars, cleanVars,
                                                     attachVars, guiVars>>

SpecAlbum == InitAlbum /\ [][NextAlbum]_vars

---------------------------------------------------------------------------
(* search_album_art_online and search_wiki_album_art                       *)
(*   every request has an outcome: "ok" is HTTP 200 with a JSON body (or   *)
(*   the image bytes), "http" any other status, "exc" an exception raised  *)
(*   by the request or while the body is read.                             *)
(*   A step gives [kind, content]: kind "image" with the bytes downloaded, *)
(*   "none" when the source has nothing, "exc" when an exception leaves    *)
(*   the step.                                                             *)

Image(content) == [kind |-> "image", content |-> content]
Nothing        == [kind |-> "none", content |-> NoImage]
Exception      == [kind |-> "exc", content |-> NoImage]

\* for img in reversed(images): the first extralarge/mega image with a URL
\* whose download answers 200; a download that raises leaves the step
RECURSIVE LargestImage(_)
LargestImage(images) ==
    IF images = <<>> THEN Nothing
    ELSE LET img  == images[Len(images)]
             rest == SubSeq(images, 1, Len(images) - 1)
         IN  IF img.text /\ img.size \in {"extralarge", "mega"}
             THEN IF img.download = "ok" THEN Image(img.content)
                  ELSE IF img.download = "exc" THEN Exception
                  ELSE LargestImage(rest)
             ELSE LargestImage(rest)

\* lines 491-506 and 509-524: album.getinfo / track.getInfo
LastFmArt(response) ==
    IF response.outcome = "exc" THEN Exception
    ELSE IF response.outcome = "http" THEN Nothing
    ELSE LargestImage(response.images)

\* lines 398-417: the score of one image of the encyclopedia page
CoverScore(image) ==
    image.keywords
      + Bonus(image.artist, 2)
      + Bonus(image.album, 3)
      + (IF image.ext \in {"jpg", "jpeg"} THEN 2
         ELSE IF image.ext = "png" THEN 1 ELSE 0)

\* potential_covers.sort(key=score, reverse=True): stable
RECURSIVE InsertCover(_, _)
InsertCover(sorted, c) ==
    IF sorted = <<>> THEN <<c>>
    ELSE IF CoverScore(Head(sorted)) >= CoverScore(c)
         THEN <<Head(sorted)>> \o InsertCover(Tail(sorted), c)
         ELSE <<c>> \o sorted

RECURSIVE SortCovers(_)
SortCovers(covers_found) ==
    IF covers_found = <<>> THEN <<>>
    ELSE InsertCover(SortCovers(SubSeq(covers_found, 1, Len(covers_found) - 1)),
                     covers_found[Len(covers_found)])

\* lines 424-465: image info, then download, for each potential cover; a
\* download that raises is caught and the next cover is tried, an image
\* info request that raises leaves the loop
RECURSIVE TryCovers(_)
TryCovers(potential_covers) ==
    IF potential_covers = <<>> THEN Nothing
    ELSE LET c == Head(potential_covers)
         IN  IF c.info = "exc" THEN Exception
             ELSE IF c.info = "ok" /\ c.download = "ok" THEN Image(c.content)
             ELSE TryCovers(Tail(potential_covers))

\* search_wiki_album_art: its own try/except turns an exception into None
search_wiki_album_art(response) ==
    IF response.search # "ok" \/ response.page # "ok" THEN Nothing
    ELSE LET potential_covers ==
                 SortCovers(SelectSeq(response.images,
                                      LAMBDA img : CoverScore(img) > 0))
             found == TryCovers(potential_covers)
         IN  IF found.kind = "exc" THEN Nothing ELSE found

\* image info for a cover file name, then the download (lines 592-616)
CoverFile(result) ==
    IF result.info = "exc" \/ (result.info = "ok" /\ result.download = "exc")
    THEN Exception
    ELSE IF result.info = "ok" /\ result.download = "ok"
    THEN Image(result.content)
    ELSE Nothing

\* lines 572-586: the first result that has a cover, or none
RECURSIVE FirstWithCover(_)
FirstWithCover(results) ==
    IF results = <<>> THEN <<>>
    ELSE IF Head(results).cover THEN <<Head(results)>>
    ELSE FirstWithCover(Tail(results))

\* lines 536-622: the structured-data query with the artist filter
DBpediaArt(response) ==
    IF response.outcome = "exc" THEN Exception
    ELSE IF response.outcome = "http" THEN Nothing
    ELSE LET first == FirstWithCover(response.results)
         IN  IF first = <<>> THEN Nothing ELSE CoverFile(first[1])

\* lines 655-685: every result that has a cover is tried in turn
RECURSIVE EachWithCover(_)
EachWithCover(results) ==
    IF results = <<>> THEN Nothing
    ELSE IF ~Head(results).cover THEN EachWithCover(Tail(results))
    ELSE LET r == CoverFile(Head(results))
         IN  IF r.kind = "none" THEN EachWithCover(Tail(results)) ELSE r

\* lines 626-688: the structured-data query without the artist filter
DBpediaGenericArt(response) ==
    IF response.outcome = "exc" THEN Exception
    ELSE IF response.outcome = "http" THEN Nothing
    ELSE EachWithCover(response.results)

\* if album and album != "Unknown Album"
AlbumKnown(album) == album # "" /\ album # "Unknown Album"

\* without the except clause the exception would reach the caller
ArtControl_propagate(found, next_pc) ==
    IF found.kind = "none" THEN next_pc
    ELSE IF found.kind = "exc" THEN "art_raised"
    ELSE "art_done"

\* where control goes after a step: the next source when this one had
\* nothing, the return of line 506/524/530/614/685 on an image, and the
\* except clause of lines 690-692 (return None) on an exception
ArtControl(found, next_pc) ==
    IF found.kind = "none" THEN next_pc ELSE "art_done"

\* One step of search_album_art_online: the source is queried; its image is
\* returned, an exception ends the function with None (the except clause
\* of lines 690-692), and otherwise the next source is up.
ArtStep(source_name, found, next_pc) ==
    /\ art_queried' = Append(art_queried, source_name)
    /\ art_result' = found.content
    /\ pc' = ArtControl(found, next_pc)
    /\ UNCHANGED art_env

\* lines 489-506
ArtLastFmAlbum ==
    /\ pc = "art_album"
    /\ IF AlbumKnown(art_env.album)
       THEN ArtStep("lastfm_album", LastFmArt(art_env.album_art), "art_track")
       ELSE /\ pc' = "art_track"
            /\ UNCHANGED <<art_env, art_queried, art_result>>

\* lines 508-524
ArtLastFmTrack ==
    /\ pc = "art_track"
    /\ ArtStep("lastfm_track", LastFmArt(art_env.track_art), "art_wiki")

\* lines 526-530
ArtWikipedia ==
    /\ pc = "art_wiki"
    /\ ArtStep("wikipedia", search_wiki_album_art(art_env.wiki), "art_dbpedia")

\* lines 532-622
ArtDBpedia ==
    /\ pc = "art_dbpedia"
    /\ ArtStep("dbpedia", DBpediaArt(art_env.dbpedia), "art_generic")

\* lines 624-688
ArtDBpediaGeneric ==
    /\ pc = "art_generic"
    /\ ArtStep("dbpedia_generic", DBpediaGenericArt(art_env.generic), "art_done")

\* ---- the answers the sources may give

Img(size, download, content) ==
    [text |-> TRUE, size |-> size, download |-> download, content |-> content]

LastFmAnswers(tag) ==
    { [outcome |-> "exc", images |-> <<>>],
      [outcome |-> "http", images |-> <<>>],
      [outcome |-> "ok", images |-> <<>>],
      [outcome |-> "ok", images |-> <<Img("large", "ok", tag \o "-large")>>],
      [outcome |-> "ok",
       images |-> <<Img("small", "ok", tag \o "-small"),
                    Img("extralarge", "ok", tag \o "-extralarge"),
                    Img("mega", "http", tag \o "-mega")>>],
      [outcome |-> "ok", images |-> <<Img("extralarge", "exc", tag \o "-x")>>] }

Cover(keywords, artist, album, ext, info, download, content) ==
    [keywords |-> keywords, artist |-> artist, album |-> album, ext |-> ext,
     info |-> info, download |-> download, content |-> content]

WikiAnswers ==
    { [search |-> "exc", page |-> "ok", images |-> <<>>],
      [search |-> "ok", page |-> "http", images |-> <<>>],
      [search |-> "ok", page |-> "ok",
       images |-> <<Cover(0, FALSE, FALSE, "svg", "ok", "ok", "wiki-logo")>>],
      [search |-> "ok", page |-> "ok",
       images |-> <<Cover(1, FALSE, FALSE, "png", "ok", "ok", "wiki-png"),
                    Cover(1, FALSE, TRUE, "jpg", "ok", "exc", "wiki-jpg")>>],
      [search |-> "ok", page |-> "ok",
       images |-> <<Cover(1, TRUE, TRUE, "jpg", "exc", "ok", "wiki-cover")>>] }

Result(cover, info, download, content) ==
    [cover |-> cover, info |-> info, download |-> download, content |-> content]

DBpediaAnswers(tag) ==
    { [outcome |-> "exc", results |-> <<>>],
      [outcome |-> "http", results |-> <<>>],
      [outcome |-> "ok", results |-> <<>>],
      [outcome |-> "ok",
       results |-> <<Result(FALSE, "ok", "ok", tag \o "-0"),
                     Result(TRUE, "ok", "ok", tag \o "-1")>>],
      [outcome |-> "ok",
       results |-> <<Result(TRUE, "ok", "http", tag \o "-1"),
                     Result(TRUE, "ok", "ok", tag \o "-2")>>],
      [outcome |-> "ok", results |-> <<Result(TRUE, "exc", "ok", tag \o "-1")>>] }

InitArt ==
    /\ pc = "art_album"
    /\ art_env \in [album : {"", "Unknown Album", "B"},
                    album_art : LastFmAnswers("album"),
                    track_art : LastFmAnswers("track"),
                    wiki : WikiAnswers,
                    dbpedia : DBpediaAnswers("dbpedia"),
                    generic : DBpediaAnswers("generic")]
    /\ art_queried = <<>>
    /\ art_result = NoImage
    /\ SanIdle /\ MetaIdle /\ OrgIdle /\ AlbumIdle /\ RecIdle /\ CleanIdle
    /\ AttachIdle /\ GuiIdle

NextArt ==
    (ArtLastFmAlbum \/ ArtLastFmTrack \/ ArtWikipedia \/ ArtDBpedia
        \/ ArtDBpediaGeneric)
       /\ UNCHANGED <<sanVars, metaVars, orgVars, albumVars, recVars, cleanVars,
                      attachVars, guiVars>>

SpecArt == InitArt /\ [][NextArt]_vars

\* the two resolvers side by side: one lookup of either kind
InitResolver == InitAlbum \/ InitArt

NextResolver == NextAlbum \/ NextArt

SpecResolver == InitResolver /\ [][NextResolver]_vars

---------------------------------------------------------------------------
(* Unknown-Album reconcile: find_and_organize_unknowns() of                *)
(* I-MusicExtractor.py and find_unknown_albums_optimized() of              *)
(* I-MusicExtractor-GUI.py                                                 *)

\* ---- the files a music library may hold in its Unknown Album folders

LibraryPool ==
    { SrcFile("u.mp3", <<"U">>, ".mp3", "ok",
              [title |-> <<"U">>, artist |-> <<"D">>], TRUE),
      SrcFile("u.m4a", <<"U">>, ".m4a", "ok",
              [title |-> <<"U">>, artist |-> <<"D">>], FALSE),
      SrcFile("w.mp3", <<"W">>, ".mp3", "ok",
              [title |-> <<"W">>, artist |-> <<"E">>], FALSE),
      SrcFile(".h", <<".", "h">>, "", "ok", EmptyFn, FALSE),
      SrcFile("n.txt", <<"n">>, ".txt", "ok", EmptyFn, FALSE) }

LibraryIds == {f.id : f \in LibraryPool}
LibFile == [id \in LibraryIds |-> CHOOSE f \in LibraryPool : f.id = id]
LibMeta == [id \in LibraryIds |-> extract_metadata(LibFile[id])]

\* where each of them lies
LibPath ==
    [id \in LibraryIds |->
        <<(IF id \in {"w.mp3", "n.txt"} THEN <<"E">> ELSE <<"D">>),
          UnknownAlbum, LibFile[id].stem, LibFile[id].suffix>>]

\* cache_key = f"{artist}|{title}"
CacheKey(q, files) ==
    LET md == LibMeta[files[q].id] IN Join2(md.artist, md.title)

\* what search_album_info may return: None, the placeholder, an album name,
\* an album name with a character that is not allowed in a file name
AlbumAnswers == {<<>>, UnknownAlbum, <<"B">>, <<"R", "?">>}

\* if album and album != "Unknown Album"
AlbumFound(album) == album # <<>> /\ album # UnknownAlbum

\* file.suffix.lower() in ['.mp3', '.m4a'], for the files of the Unknown
\* Album folders of the artist directories
UnknownAudio(dirs, files) ==
    {q \in DOMAIN files :
        /\ <<q[1], q[2]>> \in UnknownDirs(dirs)
        /\ SuffixLower(q[4]) \in supported_extensions}

\* the orders in which the two nested loops can yield these files: the
\* files of one artist directory come one after the other
ScanOrders(paths) ==
    {o \in [1..Cardinality(paths) -> paths] :
        /\ \A a, b \in DOMAIN o : a # b => o[a] # o[b]
        /\ \A a, b, c \in DOMAIN o :
              (a < b /\ b < c /\ o[a][1] = o[c][1]) => o[b][1] = o[a][1]}

\* a copy in place of the move: the file also stays where it was
MoveFile_copy(files, q, dest_path) == Put(files, dest_path, files[q])

\* shutil.move(file, dest_path): the file leaves its folder and takes the
\* place of whatever lay at dest_path
MoveFile(files, q, dest_path) ==
    LET moved == Put(files, dest_path, files[q])
    IN  [x \in DOMAIN moved \ {q} |-> moved[x]]

\* what happened to one file: the album the cache or the resolver gave for
\* it, and how the move went ("moved", "failed", or "none" when no move
\* was tried)
RecEntry(q, album, move) == [path |-> q, album |-> album, move |-> move]

\* lines 747-769 / 699-722: the file is put into the album's directory.
\* catches: the move is inside try/except (GUI) or is not (command line).
Relocate(q, album, simulate, extract_art, catches) ==
    LET album_name == sanitize_filename(album)
        album_dir  == <<q[1], album_name>>
        dest_path  == <<q[1], album_name, q[3], q[4]>>
    IN  /\ files_with_found_albums' = files_with_found_albums + 1
        /\ IF simulate
           THEN /\ log' = Append(log, RecEntry(q, album, "none"))
                /\ pc' = "rec_loop"
                /\ UNCHANGED <<dest_dirs, dest_files, covers>>
           ELSE /\ dest_dirs' = dest_dirs \cup {album_dir}
                /\ covers' = IF extract_art
                             THEN extract_and_save_album_art(
                                      LibFile[dest_files[q].id], album_dir, covers)
                             ELSE covers
                /\ \E move_ok \in BOOLEAN :
                      IF move_ok
                      THEN /\ dest_files' = MoveFile(dest_files, q, dest_path)
                           /\ log' = Append(log, RecEntry(q, album, "moved"))
                           /\ pc' = "rec_loop"
                      ELSE /\ UNCHANGED dest_files
                           /\ log' = Append(log, RecEntry(q, album, "failed"))
                           /\ pc' = IF catches THEN "rec_loop" ELSE "rec_raised"

\* lines 699-717: the counters and the cache are set up and the artist
\* directories are walked
find_and_organize_unknowns_begin ==
    /\ pc = "rec_start"
    /\ opts.front = "cli"
    /\ album_cache' = EmptyFn
    /\ unknown_files' \in ScanOrders(UnknownAudio(dest_dirs, dest_files))
    /\ idx' = 0
    /\ files_with_found_albums' = 0
    /\ lookups' = <<>>
    /\ log' = <<>>
    /\ before' = Snapshot({}, TRUE, dest_dirs, dest_files, covers)
    /\ pc' = "rec_loop"
    /\ UNCHANGED <<opts, source, fsVars, run, listing, processed_files,
                   duplicate_count, art_cache, songs_to_lookup, rec_result>>

\* lines 717-769: one file of an Unknown Album folder
find_and_organize_unknowns_file ==
    /\ pc = "rec_loop"
    /\ opts.front = "cli"
    /\ idx < Len(unknown_files)
    /\ idx' = idx + 1
    /\ LET q         == unknown_files[idx + 1]
           cache_key == CacheKey(q, dest_files)
       IN  IF cache_key \in DOMAIN album_cache
           THEN /\ UNCHANGED <<album_cache, lookups>>
                /\ IF AlbumFound(album_cache[cache_key])
                   THEN Relocate(q, album_cache[cache_key], opts.simulate,
                                 opts.extract_art, FALSE)
                   ELSE /\ log' = Append(log,
                                     RecEntry(q, album_cache[cache_key], "none"))
                        /\ pc' = "rec_loop"
                        /\ UNCHANGED <<dest_dirs, dest_files, covers,
                                       files_with_found_albums>>
           ELSE \E album \in AlbumAnswers :
                /\ lookups' = Append(lookups, cache_key)
                /\ album_cache' = IF album # <<>>
                                  THEN Put(album_cache, cache_key, album)
                                  ELSE album_cache
                /\ IF AlbumFound(album)
                   THEN Relocate(q, album, opts.simulate, opts.extract_art, FALSE)
                   ELSE /\ log' = Append(log, RecEntry(q, album, "none"))
                        /\ pc' = "rec_loop"
                        /\ UNCHANGED <<dest_dirs, dest_files, covers,
                                       files_with_found_albums>>
    /\ UNCHANGED <<opts, source, in_source, dest_exists, run, listing,
                   processed_files, duplicate_count, art_cache, before,
                   unknown_files, songs_to_lookup, rec_result>>

\* lines 771-789: the cleanup, when asked for, and the return
ReconcileEnd ==
    /\ pc = "rec_loop"
    /\ idx = Len(unknown_files)
    /\ dest_dirs' = IF opts.clean_empty
                    THEN clean_empty_unknown_album_folders(
                             dest_dirs, dest_files, covers, opts.simulate).dirs
                    ELSE dest_dirs
    /\ rec_result' = files_with_found_albums
    /\ pc' = "rec_done"
    /\ UNCHANGED <<opts, source, in_source, dest_exists, dest_files, covers,
                   run, listing, idx, processed_files, duplicate_count,
                   art_cache, log, before, album_cache, unknown_files,
                   songs_to_lookup, lookups, files_with_found_albums>>

find_and_organize_unknowns_end == opts.front = "cli" /\ ReconcileEnd

\* GUI lines 622-665: the scan that collects the files and the keys; with
\* no file found the operation returns 0 at once
find_unknown_albums_optimized_begin ==
    /\ pc = "rec_start"
    /\ opts.front = "gui"
    /\ \E found \in ScanOrders(UnknownAudio(dest_dirs, dest_files)) :
          LET keys == {CacheKey(found[k], dest_files) : k \in DOMAIN found}
          IN  /\ unknown_files' = found
              /\ songs_to_lookup' = IF opts.simulate THEN {} ELSE keys
              /\ rec_result' = IF found = <<>> THEN 0 ELSE rec_result
              /\ pc' = IF found = <<>> THEN "rec_done"
                       ELSE IF opts.simulate THEN "rec_loop"
                       ELSE "rec_prefetch"
    /\ idx' = 0
    /\ files_with_found_albums' = 0
    /\ lookups' = <<>>
    /\ log' = <<>>
    /\ before' = Snapshot({}, TRUE, dest_dirs, dest_files, covers)
    /\ UNCHANGED <<opts, source, fsVars, run, listing, processed_files,
                   duplicate_count, art_cache, album_cache>>

\* the prefetch loop creating the album's directory as soon as it knows
\* the album
find_unknown_albums_optimized_prefetch_mkdir ==
    /\ pc = "rec_prefetch"
    /\ \E cache_key \in songs_to_lookup :
          /\ songs_to_lookup' = songs_to_lookup \ {cache_key}
          /\ pc' = IF songs_to_lookup = {cache_key} THEN "rec_loop"
                   ELSE "rec_prefetch"
          /\ IF cache_key \in DOMAIN album_cache
             THEN UNCHANGED <<album_cache, lookups, dest_dirs>>
             ELSE \E album \in AlbumAnswers :
                  /\ lookups' = Append(lookups, cache_key)
                  /\ album_cache' = Put(album_cache, cache_key, album)
                  /\ dest_dirs' = IF AlbumFound(album)
                                  THEN dest_dirs \cup {<<<<"D">>, sanitize_filename(album)>>}
                                  ELSE dest_dirs
    /\ UNCHANGED <<opts, source, in_source, dest_exists, dest_files, covers,
                   run, listing, idx, processed_files,
                   duplicate_count, art_cache, log, before, unknown_files,
                   files_with_found_albums, rec_result>>

\* GUI lines 667-683: one key of the prefetch loop
find_unknown_albums_optimized_prefetch ==
    /\ pc = "rec_prefetch"
    /\ \E cache_key \in songs_to_lookup :
          /\ songs_to_lookup' = songs_to_lookup \ {cache_key}
          /\ pc' = IF songs_to_lookup = {cache_key} THEN "rec_loop"
                   ELSE "rec_prefetch"
          /\ IF cache_key \in DOMAIN album_cache
             THEN UNCHANGED <<album_cache, lookups>>
             ELSE \E album \in AlbumAnswers :
                  /\ lookups' = Append(lookups, cache_key)
                  /\ album_cache' = Put(album_cache, cache_key, album)
    /\ UNCHANGED <<opts, source, fsVars, run, listing, idx, processed_files,
                   duplicate_count, art_cache, log, before, unknown_files,
                   files_with_found_albums, rec_result>>

\* GUI lines 686-722: one file of the list
find_unknown_albums_optimized_file ==
    /\ pc = "rec_loop"
    /\ opts.front = "gui"
    /\ idx < Len(unknown_files)
    /\ idx' = idx + 1
    /\ LET q         == unknown_files[idx + 1]
           cache_key == CacheKey(q, dest_files)
           album     == IF cache_key \in DOMAIN album_cache
                        THEN album_cache[cache_key] ELSE <<>>
       IN  IF AlbumFound(album)
           THEN Relocate(q, album, opts.simulate, opts.extract_art, TRUE)
           ELSE /\ log' = Append(log, RecEntry(q, album, "none"))
                /\ pc' = "rec_loop"
                /\ UNCHANGED <<dest_dirs, dest_files, covers,
                               files_with_found_albums>>
    /\ UNCHANGED <<opts, source, in_source, dest_exists, run, listing,
                   processed_files, duplicate_count, art_cache, before,
                   album_cache, unknown_files, songs_to_lookup, lookups,
                   rec_result>>

find_unknown_albums_optimized_end == opts.front = "gui" /\ ReconcileEnd

\* ---- the libraries and the options of a reconcile

\* main() line 1177 passes args.clean_empty, which is False whenever the
\* find-unknowns branch is reached (line 1160 returns before); the GUI
\* passes `not keep_empty` (line 746)
ReconcileOptions ==
    [front : {"cli"}, simulate : BOOLEAN, extract_art : BOOLEAN,
     keep_empty : BOOLEAN, clean_empty : {FALSE}]
      \cup {o \in [front : {"gui"}, simulate : BOOLEAN, extract_art : BOOLEAN,
                   keep_empty : BOOLEAN, clean_empty : BOOLEAN] :
               o.clean_empty = ~o.keep_empty}

\* the GUI's album cache lives as long as the window does
KeptCaches ==
    {EmptyFn, Put(EmptyFn, Join2(<<"D">>, <<"U">>), <<"B">>),
     Put(EmptyFn, Join2(<<"D">>, <<"U">>), <<>>)}

InitReconcile ==
    /\ pc = "rec_start"
    /\ opts \in ReconcileOptions
    /\ \E ids \in SUBSET LibraryIds, filed \in SUBSET {<<<<"D">>, <<"B">>, <<"U">>, ".mp3">>},
          stale \in SUBSET {<<<<"D">>, UnknownAlbum>>, <<<<"E">>, UnknownAlbum>>} :
          LET paths == {LibPath[id] : id \in ids}
          IN  /\ dest_files = [q \in paths \cup filed |->
                                  IF q \in filed THEN Old
                                  ELSE [id |-> CHOOSE id \in ids : LibPath[id] = q,
                                        art |-> LibFile[CHOOSE id \in ids :
                                                          LibPath[id] = q].art]]
              /\ dest_dirs = ParentDirs(paths \cup filed) \cup
                             {d \in stale : <<d[1]>> \in ParentDirs(paths \cup filed)}
    /\ covers \in SUBSET (dest_dirs \cap {<<<<"D">>, UnknownAlbum>>})
    /\ dest_exists = TRUE
    /\ album_cache \in (IF opts.front = "gui" THEN KeptCaches ELSE {EmptyFn})
    /\ source = <<>> /\ in_source = {} /\ run = 0 /\ listing = <<>> /\ idx = 0
    /\ processed_files = <<>> /\ duplicate_count = 0 /\ art_cache = <<>>
    /\ log = <<>> /\ before = [none |-> TRUE]
    /\ unknown_files = <<>> /\ songs_to_lookup = {} /\ lookups = <<>>
    /\ files_with_found_albums = 0 /\ rec_result = -1
    /\ SanIdle /\ MetaIdle /\ AlbumIdle /\ ArtIdle /\ CleanIdle
    /\ AttachIdle /\ GuiIdle

NextReconcile ==
    (\/ find_and_organize_unknowns_begin
     \/ find_and_organize_unknowns_file
     \/ find_and_organize_unknowns_end
     \/ find_unknown_albums_optimized_begin
     \/ find_unknown_albums_optimized_prefetch
     \/ find_unknown_albums_optimized_file
     \/ find_unknown_albums_optimized_end)
       /\ UNCHANGED <<sanVars, metaVars, albumVars, artVars, cleanVars,
                      attachVars, guiVars>>

SpecReconcile == InitReconcile /\ [][NextReconcile]_vars

---------------------------------------------------------------------------
(* The clean-empty operation: main() lines 1160-1168 and run_clean_empty() *)
(* of the GUI, run once and then once more on the tree the first run left  *)

\* what an Unknown Album folder may hold
FolderEntries ==
    {<<"audio">>, <<"hidden">>, <<"other">>, <<"cover">>}

EntryPath(artist, entry) ==
    CASE entry = <<"audio">>  -> <<artist, UnknownAlbum, <<"U">>, ".mp3">>
      [] entry = <<"hidden">> -> <<artist, UnknownAlbum, <<".", "h">>, "">>
      [] OTHER                -> <<artist, UnknownAlbum, <<"n">>, ".txt">>

\* one cleanup run: clean_empty_unknown_album_folders(dest_dir, simulate)
CleanRun(simulate) ==
    /\ pc \in {"clean_first", "clean_second"}
    /\ LET r == clean_empty_unknown_album_folders(dest_dirs, dest_files,
                                                  covers, simulate)
       IN  /\ dest_dirs' = r.dirs
           /\ cleaned' = Append(cleaned,
                                [simulate |-> simulate,
                                 removed_count |-> r.removed_count,
                                 dirs_before |-> dest_dirs,
                                 dirs_after |-> r.dirs])
    /\ pc' = IF pc = "clean_first" THEN "clean_second" ELSE "clean_done"
    /\ UNCHANGED <<source, in_source, dest_exists, dest_files, covers, run,
                   listing, idx, processed_files, duplicate_count, art_cache,
                   log, before>>

\* main() lines 1160-1168: --clean-empty, with or without --simulate
main_clean_empty ==
    /\ opts.front = "cli"
    /\ \E simulate \in BOOLEAN : CleanRun(simulate)
    /\ UNCHANGED opts

\* run_clean_empty: the simulate box is read when the run starts
run_clean_empty ==
    /\ opts.front = "gui"
    /\ \E simulate \in BOOLEAN : CleanRun(simulate)
    /\ UNCHANGED opts

InitClean ==
    /\ pc = "clean_first"
    /\ opts \in [front : {"cli", "gui"}]
    /\ \E holds \in [{<<"D">>, <<"E">>} -> SUBSET FolderEntries],
          folder \in [{<<"D">>, <<"E">>} -> BOOLEAN],
          filed \in SUBSET {<<<<"D">>, <<"B">>, <<"U">>, ".mp3">>} :
          LET artists == {a \in DOMAIN holds : folder[a] \/ holds[a] # {}}
              paths == {EntryPath(a, e) :
                           a \in artists, e \in FolderEntries \ {<<"cover">>}}
              there == {q \in paths :
                           \E e \in holds[q[1]] : e # <<"cover">> /\ EntryPath(q[1], e) = q}
          IN  /\ dest_files = [q \in there \cup filed |-> Old]
              /\ dest_dirs = ParentDirs(filed) \cup {<<a>> : a \in artists}
                                \cup {<<a, UnknownAlbum>> : a \in artists}
              /\ covers = {<<a, UnknownAlbum>> : a \in
                              {a \in artists : <<"cover">> \in holds[a]}}
    /\ dest_exists = TRUE
    /\ source = <<>> /\ in_source = {} /\ run = 0 /\ listing = <<>> /\ idx = 0
    /\ processed_files = <<>> /\ duplicate_count = 0 /\ art_cache = <<>>
    /\ log = <<>> /\ before = [none |-> TRUE]
    /\ cleaned = <<>>
    /\ SanIdle /\ MetaIdle /\ AlbumIdle /\ ArtIdle /\ RecIdle
    /\ AttachIdle /\ GuiIdle

NextClean ==
    (main_clean_empty \/ run_clean_empty)
       /\ UNCHANGED <<sanVars, metaVars, albumVars, artVars, recVars,
                      attachVars, guiVars>>

SpecClean == InitClean /\ [][NextClean]_vars

---------------------------------------------------------------------------
(* Harness: sanitize_filename *)


InitSanitize ==
    /\ pc = "sanitize"
    /\ name \in Str(MaxLen, SanAlphabet)
    /\ sanitized = NoStr
    /\ resanitized = NoStr
    /\ MetaIdle /\ OrgIdle /\ AlbumIdle /\ ArtIdle /\ RecIdle /\ CleanIdle
    /\ AttachIdle /\ GuiIdle

Sanitize ==
    /\ pc = "sanitize"
    /\ sanitized' = sanitize_filename(name)
    /\ pc' = "sanitize_again"
    /\ UNCHANGED <<name, resanitized, metaVars, orgVars, albumVars, artVars, recVars, cleanVars,
                   attachVars, guiVars>>

SanitizeAgain ==
    /\ pc = "sanitize_again"
    /\ resanitized' = sanitize_filename(sanitized)
    /\ pc' = "sanitized_twice"
    /\ UNCHANGED <<name, sanitized, metaVars, orgVars, albumVars, artVars, recVars, cleanVars,
                   attachVars, guiVars>>

NextSanitize == Sanitize \/ SanitizeAgain

SpecSanitize == InitSanitize /\ [][NextSanitize]_vars

---------------------------------------------------------------------------
(* Harness: extract_metadata *)

InitMeta ==
    /\ pc = "extract"
    /\ file_path \in MetaFiles
    /\ metadata = NoMeta
    /\ SanIdle /\ OrgIdle /\ AlbumIdle /\ ArtIdle /\ RecIdle /\ CleanIdle
    /\ AttachIdle /\ GuiIdle

ExtractMetadata ==
    /\ pc = "extract"
    /\ metadata' = extract_metadata(file_path)
    /\ pc' = "extracted"
    /\ UNCHANGED <<file_path, sanVars, orgVars, albumVars, artVars, recVars, cleanVars,
                   attachVars, guiVars>>

NextMeta == ExtractMetadata

SpecMeta == InitMeta /\ [][NextMeta]_vars

---------------------------------------------------------------------------
(* C6: sanitize_filename replaces every one of < > : " / \ | ? * by '_',   *)
(* changes no other character, and sanitizing its own output changes       *)
(* nothing.                                                                *)
InvalidSet == {"<", ">", ":", "\"", "/", "\\", "|", "?", "*"}

C6_SanitizeIdempotent ==
    /\ pc \in {"sanitize_again", "sanitized_twice"} =>
          /\ Len(sanitized) = Len(name)
          /\ \A i \in DOMAIN name :
                sanitized[i] = IF name[i] \in InvalidSet THEN "_" ELSE name[i]
    /\ pc = "sanitized_twice" => resanitized = sanitized

C6_Witness ==
    /\ pc = "sanitized_twice"
    /\ \E i \in DOMAIN name : name[i] = "|"
    /\ \E i \in DOMAIN name : name[i] = "a"
    /\ sanitized # name

---------------------------------------------------------------------------
(* C5 as stated: for a file whose tags cannot be read the reader returns   *)
(* title "Unknown Title", artist "Unknown Artist", album "Unknown Album"   *)
(* and does not raise.                                                     *)
C5_Original ==
    (pc = "extracted" /\ Unreadable(file_path)) =>
        metadata = [title |-> UnknownTitle, artist |-> UnknownArtist,
                    album |-> UnknownAlbum]

(* C5 amended: for a file whose tags cannot be read the reader returns the *)
(* file name without its extension as title, "Unknown Artist" and          *)
(* "Unknown Album", and does not raise.                                    *)
C5_UnreadableDefaults ==
    (pc = "extracted" /\ Unreadable(file_path)) =>
        /\ metadata # Raised
        /\ metadata = [title |-> file_path.stem, artist |-> UnknownArtist,
                       album |-> UnknownAlbum]

C5_Witness ==
    /\ pc = "extracted"
    /\ file_path.read = "error"
    /\ SuffixLower(file_path.suffix) = ".mp3"
    /\ Has(file_path, "title")

---------------------------------------------------------------------------
(* Vocabulary of the extract-and-organize claims *)

Written == {"copied", "moved"}
Skipped == {"duplicate", "already_filed", "exists"}

\* the characters of s with every invalid one read as '_'
Clean(s) == [k \in DOMAIN s |-> IF s[k] \in InvalidSet THEN "_" ELSE s[k]]

Supported(id) == SuffixLower(File[id].suffix) \in supported_extensions

\* two files yield the same sanitized (artist, album, title)
SameSignature(a, b) ==
    LET m1 == extract_metadata(File[a])
        m2 == extract_metadata(File[b])
    IN  /\ Clean(m1.artist) = Clean(m2.artist)
        /\ Clean(m1.album) = Clean(m2.album)
        /\ Clean(m1.title) = Clean(m2.title)

InDestination(id) == \E q \in DOMAIN dest_files : dest_files[q].id = id

(* C1: without force, a run leaves every file that was in the destination  *)
(* when it began in place with its content, and no two source files of     *)
(* the run are written to the same destination path.                       *)
C1_NoOverwrite ==
    ~opts.force =>
        /\ \A q \in DOMAIN before.dest_files :
              q \in DOMAIN dest_files /\ dest_files[q] = before.dest_files[q]
        /\ \A j, k \in DOMAIN log :
              (j < k /\ log[j].outcome \in Written /\ log[k].outcome \in Written)
                 => /\ DestPath(File[log[j].id]) # DestPath(File[log[k].id])
                    /\ InDestination(log[j].id) /\ InDestination(log[k].id)

C1_Witness ==
    /\ ~opts.force /\ pc = "org_done" /\ run = 1
    /\ DOMAIN before.dest_files # {}
    /\ \E j, k \in DOMAIN log :
          /\ log[j].outcome = "exists"
          /\ DestPath(File[log[j].id]) \in DOMAIN before.dest_files
          /\ log[k].outcome \in Written

(* C2: within one run, the later of two source files with the same         *)
(* sanitized (artist, album, title) is counted and reported as a           *)
(* duplicate, whatever the file names and extensions, and without force    *)
(* it is neither copied nor moved.                                         *)
C2_DuplicateSkipped ==
    /\ \A j, k \in DOMAIN log :
          (j < k /\ Supported(log[j].id) /\ Supported(log[k].id)
                 /\ SameSignature(log[j].id, log[k].id))
             => /\ log[k].dup
                /\ ~opts.force =>
                      /\ log[k].outcome = "duplicate"
                      /\ ~InDestination(log[k].id)
                      /\ log[k].id \in in_source
    /\ duplicate_count = Cardinality({k \in DOMAIN log : log[k].dup})

C2_Witness ==
    /\ ~opts.force /\ pc = "org_done"
    /\ \E j, k \in DOMAIN log :
          /\ j < k /\ log[k].outcome = "duplicate"
          /\ File[log[j].id].suffix # File[log[k].id].suffix
          /\ extract_metadata(File[log[j].id]).title
                # extract_metadata(File[log[k].id]).title
          /\ duplicate_count = 1

(* C3 as stated: the second of two command-line runs without force on the  *)
(* same source and destination adds no file to the destination and skips   *)
(* every supported source file.                                            *)
C3_Original ==
    (opts.front = "cli" /\ ~opts.force /\ run = 2 /\ pc = "org_done") =>
        /\ DOMAIN dest_files = DOMAIN before.dest_files
        /\ covers = before.covers
        /\ \A k \in DOMAIN log :
              Supported(log[k].id) => log[k].outcome \in Skipped

(* C3 amended: the second of two command-line runs without force that copy *)
(* (and do not move) adds no file to the destination and skips every       *)
(* supported source file.                                                  *)
C3_RerunCopiesNothing ==
    (opts.front = "cli" /\ ~opts.force /\ ~opts.move /\ run = 2
        /\ pc \in {"org_loop", "org_done"}) =>
        /\ DOMAIN dest_files = DOMAIN before.dest_files
        /\ covers = before.covers
        /\ \A k \in DOMAIN log :
              Supported(log[k].id) => log[k].outcome \in Skipped

C3_Witness ==
    /\ opts.front = "cli" /\ ~opts.force /\ ~opts.move
    /\ run = 2 /\ pc = "org_done"
    /\ Len(log) = 2
    /\ \E j, k \in DOMAIN log :
          log[j].outcome = "exists" /\ log[k].outcome = "duplicate"
    /\ DOMAIN dest_files # {}

(* C4: in simulate mode a run changes nothing on disk: the destination     *)
(* root, the artist and album directories, the cover images, the audio     *)
(* files of the destination and the source directory all stay as they      *)
(* were when the run began.                                                *)
C4_SimulateMutatesNothing ==
    opts.simulate =>
        Snapshot(in_source, dest_exists, dest_dirs, dest_files, covers) = before

---------------------------------------------------------------------------
(* Vocabulary of the resolveAlbum claims *)

Num(cond) == IF cond THEN 1 ELSE 0

MaxOf(set) == CHOOSE m \in set : \A x \in set : x <= m

\* the highest score given to an examined release, 0 when none was examined
BestScore ==
    MaxOf({0} \cup {scored[k].release_score : k \in DOMAIN scored})

\* the first recording of the answer among those of highest score
TopRecording ==
    LET top == MaxOf({mb.recordings[k].score : k \in DOMAIN mb.recordings})
        at  == CHOOSE k \in DOMAIN mb.recordings :
                  /\ mb.recordings[k].score = top
                  /\ \A j \in 1..(k - 1) : mb.recordings[j].score # top
    IN  mb.recordings[at]

Answered == mb.outcome = "ok" /\ mb.recordings # <<>>

(* C7 as stated: every examined release is scored recordingScore + 30 if   *)
(* its status is "Official" + 20 if its primary type is "Album" - 15 if    *)
(* its secondary types include "Compilation", each adjustment applied      *)
(* independently of the other two.                                         *)
C7_Original ==
    \A k \in DOMAIN scored :
        scored[k].release_score =
            scored[k].recording_score
              + 30 * Num(scored[k].release.status = "Official")
              + 20 * Num(PrimaryType(scored[k].release) = "Album")
              - 15 * Num(IsCompilation(scored[k].release))

(* C7 amended: every examined release is scored recordingScore + 30 if its *)
(* status is "Official" + 20 if its primary type is "Album" - 15 if its    *)
(* primary type is "Album" and its secondary types include "Compilation";  *)
(* a compilation of any other primary type gets no penalty.                *)
C7_CompositeScore ==
    \A k \in DOMAIN scored :
        scored[k].release_score =
            scored[k].recording_score
              + 30 * Num(scored[k].release.status = "Official")
              + 20 * Num(PrimaryType(scored[k].release) = "Album")
              - 15 * Num(PrimaryType(scored[k].release) = "Album"
                         /\ IsCompilation(scored[k].release))

C7_Witness ==
    /\ pc = "album_done"
    /\ \E j, k \in DOMAIN scored :
          /\ scored[j].release.group = "Single+Compilation"
          /\ scored[j].release.status = "Official"
          /\ scored[j].release_score = scored[j].recording_score + 30
          /\ scored[k].release.group = "Album+Compilation"
          /\ scored[k].release_score = scored[k].recording_score + 5

(* C8: when the primary catalog answers with recordings, the result is the *)
(* title of a release of highest composite score if that score exceeds 70; *)
(* when the best score is 70 or less, or no release was scored, it is the  *)
(* title of the first release of the highest-score recording, if that      *)
(* recording has a release.                                                *)
C8_BestOrFirstRelease ==
    (pc = "album_done" /\ Answered) =>
        IF BestScore > 70
        THEN \E k \in DOMAIN scored :
                /\ scored[k].release_score = BestScore
                /\ album_result = scored[k].release.title
        ELSE TopRecording.releases # <<>> =>
                album_result = TopRecording.releases[1].title

C8_Witness ==
    /\ pc = "album_done" /\ Answered
    /\ BestScore > 70
    /\ TopRecording.releases # <<>>
    /\ album_result # TopRecording.releases[1].title

\* the primary catalog's answer gives an album name
PrimaryUsable ==
    /\ Answered
    /\ \/ LET examined == Examined(SortedByScore(mb.recordings))
          IN  \E k \in DOMAIN examined : examined[k].release_score > 70
       \/ TopRecording.releases # <<>>

\* the secondary catalog reports an album for the track
SecondaryAlbum ==
    IF lastfm.outcome = "ok" THEN lastfm.album ELSE NoAlbum

(* C9: the secondary catalog is queried only after the primary catalog     *)
(* gave nothing usable; an album the secondary catalog reports is then the *)
(* result; and the result is null exactly when the primary catalog gives   *)
(* nothing usable and the secondary catalog reports no album.              *)
C9_SecondaryOnlyAfterPrimary ==
    /\ InSeq("lastfm", queried) =>
          /\ queried = <<"musicbrainz", "lastfm">>
          /\ ~PrimaryUsable
          /\ (pc = "album_done" /\ SecondaryAlbum # NoAlbum)
                => album_result = SecondaryAlbum
    /\ pc = "album_done" =>
          (album_result = NoAlbum <=>
              (~PrimaryUsable /\ SecondaryAlbum = NoAlbum))

\* the five sources in the order the resolver lists them
ArtOrder ==
    <<"lastfm_album", "lastfm_track", "wikipedia", "dbpedia", "dbpedia_generic">>

\* what a source has for this lookup: album art is not looked up without a
\* known album, and a request that fails gives no image
Offers(source_name) ==
    LET found ==
          CASE source_name = "lastfm_album" ->
                   IF AlbumKnown(art_env.album) THEN LastFmArt(art_env.album_art)
                   ELSE Nothing
            [] source_name = "lastfm_track" -> LastFmArt(art_env.track_art)
            [] source_name = "wikipedia" -> search_wiki_album_art(art_env.wiki)
            [] source_name = "dbpedia" -> DBpediaArt(art_env.dbpedia)
            [] OTHER -> DBpediaGenericArt(art_env.generic)
    IN  IF found.kind = "image" THEN found.content ELSE NoImage

\* the sources that are looked up at all for this lookup
ArtSources ==
    SelectSeq(ArtOrder,
              LAMBDA n : n # "lastfm_album" \/ AlbumKnown(art_env.album))

(* C10: the five art sources are consulted in the order (a) album art,     *)
(* (b) track art, (c) encyclopedia, (d) structured data with the artist    *)
(* filter, (e) structured data without it; a later source is queried only  *)
(* after every earlier one produced no image; the result is the image of   *)
(* the first source whose download succeeds; and null is returned only     *)
(* when all of them are exhausted.                                         *)
C10_ArtSourcesInOrder ==
    /\ Len(art_queried) <= Len(ArtSources)
    /\ art_queried = SubSeq(ArtSources, 1, Len(art_queried))
    /\ \A k \in DOMAIN art_queried :
          \A j \in 1..(k - 1) : Offers(art_queried[j]) = NoImage
    /\ pc = "art_done" =>
          /\ art_result # NoImage =>
                art_result = Offers(art_queried[Len(art_queried)])
          /\ art_result = NoImage =>
                /\ art_queried = ArtSources
                /\ \A k \in DOMAIN ArtOrder : Offers(ArtOrder[k]) = NoImage

\* no request of the album-art, track-art or structured-data steps raises
NoArtException ==
    /\ AlbumKnown(art_env.album) => LastFmArt(art_env.album_art).kind # "exc"
    /\ LastFmArt(art_env.track_art).kind # "exc"
    /\ DBpediaArt(art_env.dbpedia).kind # "exc"
    /\ DBpediaGenericArt(art_env.generic).kind # "exc"

\* without an exception in those steps the order, the result and the null
\* case are as C10 states them
C10_ArtSourcesInOrder_NoException ==
    NoArtException => C10_ArtSourcesInOrder

\* the step that was queried last left by an exception
LastStepRaised ==
    /\ art_queried # <<>>
    /\ LET last == art_queried[Len(art_queried)]
       IN  CASE last = "lastfm_album" -> LastFmArt(art_env.album_art).kind = "exc"
             [] last = "lastfm_track" -> LastFmArt(art_env.track_art).kind = "exc"
             [] last = "dbpedia" -> DBpediaArt(art_env.dbpedia).kind = "exc"
             [] last = "dbpedia_generic" ->
                    DBpediaGenericArt(art_env.generic).kind = "exc"
             [] OTHER -> FALSE

(* C11: a failing query counts as no result for its source only and the    *)
(* resolution goes on: a primary-catalog query that raises is followed by  *)
(* the secondary-catalog query, and an art step that raises is followed by *)
(* the remaining art steps.                                                *)
C11_FailureContinues ==
    /\ (pc = "album_done" /\ mb.outcome = "exc") => InSeq("lastfm", queried)
    /\ (pc = "art_done" /\ LastStepRaised) =>
          art_queried[Len(art_queried)] = "dbpedia_generic"

\* search_wiki_album_art met an exception: the search, the page request or
\* an image info request raised
WikiRaised ==
    \/ art_env.wiki.search = "exc"
    \/ art_env.wiki.page = "exc"
    \/ \E k \in DOMAIN art_env.wiki.images : art_env.wiki.images[k].info = "exc"

\* the image bytes the sources of this lookup can deliver
ArtContents ==
    {art_env.album_art.images[k].content : k \in DOMAIN art_env.album_art.images}
      \cup {art_env.track_art.images[k].content :
               k \in DOMAIN art_env.track_art.images}
      \cup {art_env.wiki.images[k].content : k \in DOMAIN art_env.wiki.images}
      \cup {art_env.dbpedia.results[k].content :
               k \in DOMAIN art_env.dbpedia.results}
      \cup {art_env.generic.results[k].content :
               k \in DOMAIN art_env.generic.results}

\* the album names the catalogs of this lookup can deliver
AlbumTitles ==
    UNION {{mb.recordings[k].releases[j].title :
                j \in DOMAIN mb.recordings[k].releases} :
             k \in DOMAIN mb.recordings} \cup {lastfm.album}

\* a catalog query of the album lookup raised and ended the lookup
AlbumQueryRaised ==
    \/ mb.outcome = "exc"
    \/ InSeq("lastfm", queried) /\ lastfm.outcome = "exc"

(* C12: neither resolver lets an exception reach its caller: whatever a    *)
(* request or a response parse raises, the album lookup ends by returning  *)
(* an album name or null and the art lookup by returning image bytes or    *)
(* null.                                                                   *)
C12_NeverPropagates ==
    /\ pc \in {"album_primary", "album_secondary", "album_done",
               "art_album", "art_track", "art_wiki", "art_dbpedia",
               "art_generic", "art_done"}
    /\ pc = "art_done" => art_result \in ArtContents \cup {NoImage}
    /\ (pc = "art_done" /\ LastStepRaised) => art_result = NoImage
    /\ pc = "album_done" => album_result \in AlbumTitles \cup {NoAlbum}
    /\ (pc = "album_done" /\ AlbumQueryRaised) => album_result = NoAlbum

C12_Witness ==
    /\ pc = "art_done"
    /\ LastStepRaised
    /\ WikiRaised
    /\ art_queried[Len(art_queried)] = "dbpedia"
    /\ art_result = NoImage

\* the reconcile has ended, by returning or by an exception
ReconcileOver == pc \in {"rec_done", "rec_raised"}

\* where a file of an Unknown Album folder belongs once its album is known
AlbumPath(q, album) == <<q[1], sanitize_filename(album), q[3], q[4]>>

\* the file that was at q when the reconcile began is now at path
NowAt(q, path) ==
    path \in DOMAIN dest_files /\ dest_files[path] = before.dest_files[q]

\* the audio files that were in Unknown Album folders when it began
WasUnknown == UnknownAudio(before.dest_dirs, before.dest_files)

\* the files the loop has not come to
NotReached == WasUnknown \ {log[k].path : k \in DOMAIN log}

Relocated == {k \in DOMAIN log : log[k].move = "moved"}

(* C14: the value a reconcile returns is the number of files it relocated  *)
(* out of Unknown Album folders, in every mode: simulated or not, and      *)
(* also when a move failed.                                                *)
C14_ReturnsRelocatedCount ==
    pc = "rec_done" => rec_result = Cardinality(Relocated)

\* the count is wrong only in a simulated run or after a failed move
C14_CountRightOtherwise ==
    (pc = "rec_done" /\ ~opts.simulate
        /\ \A k \in DOMAIN log : log[k].move # "failed")
       => rec_result = Cardinality(Relocated)

\* the Unknown Album folders a cleanup would remove from the tree as it is
Removable ==
    {d \in UnknownDirs(dest_dirs) :
        Items(dest_files, covers, d) = {} /\ FilesIn(dest_files, d) = {}}

(* C15: a reconcile run with cleanup configured (empty folders are not to  *)
(* be kept) runs the folder cleanup after its relocation pass, whatever    *)
(* the number of files it found, zero included: when it has returned and   *)
(* was not simulated, no empty Unknown Album folder is left, in particular *)
(* not one whose last file it moved out.                                   *)
C15_CleanupAfterReconcile ==
    (pc = "rec_done" /\ ~opts.keep_empty /\ ~opts.simulate) => Removable = {}

\* the GUI's reconcile that found at least one file does run the cleanup
C15_GuiWithFilesFound ==
    (pc = "rec_done" /\ opts.front = "gui" /\ ~opts.keep_empty
        /\ ~opts.simulate /\ unknown_files # <<>>) => Removable = {}

\* the Unknown Album folders with zero non-hidden entries, in a tree with
\* these directories (a cleanup changes neither files nor covers)
NoVisibleEntries(dirs) ==
    {d \in UnknownDirs(dirs) : Items(dest_files, covers, d) = {}}

\* ... and those of them that hold hidden entries only
HiddenOnly(dirs) ==
    {d \in NoVisibleEntries(dirs) : FilesIn(dest_files, d) # {}}

(* C16: a cleanup that is not simulated removes every Unknown Album folder *)
(* under an artist folder that has zero non-hidden entries, and returns    *)
(* the number of such folders.                                             *)
C16_RemovesEveryEmptyFolder ==
    \A k \in DOMAIN cleaned :
        ~cleaned[k].simulate =>
            /\ cleaned[k].dirs_after =
                  cleaned[k].dirs_before \ NoVisibleEntries(cleaned[k].dirs_before)
            /\ cleaned[k].removed_count =
                  Cardinality(NoVisibleEntries(cleaned[k].dirs_before))

\* with no folder that holds hidden entries only, C16 is as stated
C16_WithoutHiddenOnlyFolders ==
    \A k \in DOMAIN cleaned :
        (~cleaned[k].simulate /\ HiddenOnly(cleaned[k].dirs_before) = {}) =>
            /\ cleaned[k].dirs_after =
                  cleaned[k].dirs_before \ NoVisibleEntries(cleaned[k].dirs_before)
            /\ cleaned[k].removed_count =
                  Cardinality(NoVisibleEntries(cleaned[k].dirs_before))

C17_Original ==
    Len(cleaned) = 2 =>
        /\ cleaned[2].removed_count = 0
        /\ cleaned[2].dirs_after = cleaned[2].dirs_before

(* C17: cleanup is idempotent: when the cleanup is run twice in a row, not *)
(* simulated, on the same tree with no other change in between, the second *)
(* run removes no folder and returns 0.                                    *)
C17_CleanupIdempotent ==
    (Len(cleaned) = 2 /\ ~cleaned[1].simulate /\ ~cleaned[2].simulate) =>
        /\ cleaned[2].removed_count = 0
        /\ cleaned[2].dirs_after = cleaned[2].dirs_before

C17_Witness ==
    /\ Len(cleaned) = 2 /\ ~cleaned[1].simulate /\ ~cleaned[2].simulate
    /\ cleaned[1].removed_count > 0
    /\ HiddenOnly(cleaned[2].dirs_before) # {}
    /\ cleaned[2].removed_count = 0

(* C18: an exception raised while one file of a batch is processed is      *)
(* caught and logged and the remaining files of the batch are still        *)
(* processed; no exception ends a whole batch.  For the reconcile loop:    *)
(* the operation never ends by an exception, and when it has ended every   *)
(* audio file of the Unknown Album folders has been processed.             *)
C18_BatchSurvivesFileError ==
    /\ pc # "rec_raised"
    /\ ReconcileOver => NotReached = {}

\* the GUI's loop, which wraps the move in try/except, does go on
C18_GuiLoopGoesOn ==
    opts.front = "gui" =>
        /\ pc # "rec_raised"
        /\ (pc = "rec_done" /\ \E k \in DOMAIN log : log[k].move = "failed")
              => NotReached = {}

\* how often the resolver was called with this key
TimesLookedUp(cache_key) ==
    Cardinality({k \in DOMAIN lookups : lookups[k] = cache_key})

(* C20: within one batch run the resolver is called at most once for each  *)
(* distinct cache key, also for keys whose lookup found nothing: the       *)
(* not-found result is recorded and no lookup of that key is repeated in   *)
(* the same run.                                                           *)
C20_OneLookupPerKey ==
    \A k \in DOMAIN lookups : TimesLookedUp(lookups[k]) <= 1

\* the GUI's prefetch records not-found results and never repeats a key
C20_GuiOneLookupPerKey ==
    opts.front = "gui" => \A k \in DOMAIN lookups : TimesLookedUp(lookups[k]) <= 1

\* on the command line only a lookup that found nothing is ever repeated
C20_RepeatOnlyAfterNotFound ==
    \A j, k \in DOMAIN lookups :
        (j < k /\ lookups[j] = lookups[k]) =>
            \E n \in DOMAIN log :
                /\ CacheKey(log[n].path, before.dest_files) = lookups[j]
                /\ log[n].album = <<>>

\* the destination paths written by the files processed before entry k
WrittenEarlier(k) ==
    {Dest[log[j].id] : j \in {j \in 1..(k - 1) : log[j].outcome \in Written}}

\* when file k of the run was processed, another album folder of its
\* artist held a file named <sanitized title><extension>
SiblingHeld(k) ==
    \E q \in DOMAIN before.dest_files \cup WrittenEarlier(k) :
        /\ q[1] = Dest[log[k].id][1]
        /\ q[2] # UnknownAlbum
        /\ q[3] = Dest[log[k].id][3]
        /\ q[4] = Dest[log[k].id][4]

(* C19: a file whose album is the Unknown Album placeholder is skipped,    *)
(* neither copied nor moved into Artist/Unknown Album, when another album  *)
(* folder of the same artist already holds a file named                    *)
(* <sanitized title><extension>, unless force is set.                      *)
C19_SkipsWhenFiledElsewhere ==
    (pc \in {"org_loop", "org_done"} /\ ~opts.force) =>
        \A k \in DOMAIN log :
            (Supported(log[k].id) /\ Dest[log[k].id][2] = UnknownAlbum
                /\ SiblingHeld(k))
               => /\ log[k].outcome \in {"duplicate", "already_filed"}
                  /\ Dest[log[k].id] \in DOMAIN dest_files =>
                        /\ Dest[log[k].id] \in DOMAIN before.dest_files
                        /\ dest_files[Dest[log[k].id]] =
                              before.dest_files[Dest[log[k].id]]
                  /\ opts.move => log[k].id \in in_source

C19_Witness ==
    /\ pc = "org_done" /\ ~opts.force
    /\ \E k \in DOMAIN log :
          /\ Dest[log[k].id][2] = UnknownAlbum
          /\ SiblingHeld(k)
          /\ log[k].outcome = "already_filed"
          /\ Dest[log[k].id] \notin DOMAIN dest_files

\* the releases examined with the highest score, by their place in the
\* order of examination
Leaders == {k \in DOMAIN scored : scored[k].release_score = BestScore}

Untouched ==
    /\ dest_dirs = before.dest_dirs
    /\ dest_files = before.dest_files
    /\ covers = before.covers

\* a step in which the resolver is called
ResolverCalled == lookups' # lookups

(* C22: in the GUI's reconcile every resolver call of the run comes before *)
(* the first change to the file system (directory created, cover written,  *)
(* file moved), and each distinct (artist, title) pair collected from the  *)
(* Unknown Album folders is resolved at most once.                         *)
C22_PrefetchBeforeMutation ==
    /\ [](opts.front = "gui" =>
             \A k \in DOMAIN lookups : TimesLookedUp(lookups[k]) <= 1)
    /\ [][(opts.front = "gui" /\ ResolverCalled) =>
             (Untouched /\ Untouched')]_vars

C22_Witness ==
    /\ opts.front = "gui" /\ pc = "rec_done"
    /\ Len(lookups) = 2
    /\ \E k \in DOMAIN log : log[k].move = "moved"
    /\ ~Untouched

(* C23: in the command line's find-unknowns mode the keep-empty flag       *)
(* decides the cleanup: without the flag no empty Unknown Album folder is  *)
(* left after the reconcile, with the flag every Unknown Album folder is   *)
(* kept.                                                                   *)
C23_KeepEmptyDecidesCleanup ==
    (opts.front = "cli" /\ pc = "rec_done" /\ ~opts.simulate) =>
        IF opts.keep_empty
        THEN UnknownDirs(before.dest_dirs) \subseteq dest_dirs
        ELSE Removable = {}

\* with the flag the folders are kept; it is the removal that never happens
C23_KeptWithFlag ==
    (opts.front = "cli" /\ pc = "rec_done" /\ opts.keep_empty) =>
        UnknownDirs(before.dest_dirs) \subseteq dest_dirs

(* C24: a simulated cleanup removes no folder and leaves the tree as it    *)
(* was, and returns the number of Unknown Album folders that have zero     *)
(* non-hidden entries.                                                     *)
C24_SimulatedCleanupOnlyCounts ==
    \A k \in DOMAIN cleaned :
        cleaned[k].simulate =>
            /\ cleaned[k].dirs_after = cleaned[k].dirs_before
            /\ cleaned[k].removed_count =
                  Cardinality(NoVisibleEntries(cleaned[k].dirs_before))

C24_Witness ==
    /\ Len(cleaned) = 1
    /\ cleaned[1].simulate
    /\ cleaned[1].removed_count = 2
    /\ HiddenOnly(dest_dirs) # {}
    /\ dest_dirs = cleaned[1].dirs_before

\* the files that were in the tree, outside the reach of the reconcile,
\* when it began
Bystanders == DOMAIN before.dest_files \ WasUnknown

(* C26: a reconcile never overwrites a file: when the album's folder       *)
(* already holds a file with the name of the file taken out of the Unknown *)
(* Album folder, the file that was there stays as it was.                  *)
C26_ReconcileNeverOverwrites ==
    (pc \in {"rec_loop", "rec_done", "rec_raised"}) =>
        \A q \in Bystanders :
            q \in DOMAIN dest_files /\ dest_files[q] = before.dest_files[q]

\* the titles of the releases of the recordings that score at least 50
ConfidentTitles ==
    UNION {{mb.recordings[k].releases[j].title :
                j \in DOMAIN mb.recordings[k].releases} :
             k \in {k \in DOMAIN mb.recordings : mb.recordings[k].score >= 50}}

\* the lookup ended with an album taken from the primary catalog
FromPrimary ==
    pc = "album_done" /\ queried = <<"musicbrainz">> /\ album_result # NoAlbum

C27_Original == FromPrimary => album_result \in ConfidentTitles

(* C27: an album name returned from the primary catalog as the best match  *)
(* (composite score above 70) is the title of a release of a recording     *)
(* whose confidence score is at least 50; a recording that scores below 50 *)
(* determines the result only through the fallback to the first release of *)
(* the highest-scored recording.                                           *)
C27_BestMatchIsConfident ==
    FromPrimary =>
        \/ album_result \in ConfidentTitles
        \/ /\ BestScore <= 70
           /\ TopRecording.score < 50
           /\ album_result = TopRecording.releases[1].title

C27_Witness ==
    /\ FromPrimary
    /\ BestScore > 70
    /\ \E k \in DOMAIN mb.recordings :
          /\ mb.recordings[k].score < 50
          /\ \E j \in DOMAIN mb.recordings[k].releases :
                release_score(mb.recordings[k].score,
                              mb.recordings[k].releases[j]) > BestScore
    /\ album_result \in ConfidentTitles

---------------------------------------------------------------------------
(* RedirectText (I-MusicExtractor-GUI.py lines 31-108), created with       *)
(* incremental=True: the stream the worker prints to, and the console      *)
(* widget its callbacks fill.                                              *)
(*   redirector = [buffer, last_line, update_pending, updated, timers,     *)
(*                 console, printed, fresh]                                *)
(*   buffer is the text written so far, console the lines inserted into    *)
(*   the widget, timers the number of incremental_update callbacks waiting *)
(*   in Tk's timer queue, updated whether last_update was ever set,        *)
(*   printed the number of print() calls made and fresh whether            *)
(*   incremental_update has run since the last write.                      *)

MaxPrints == 3       \* most print() calls of one batch

NL == "\n"

\* index of the first element of seq equal to x, 0 when there is none
FirstIndex(seq, x) ==
    IF \E i \in DOMAIN seq : seq[i] = x
    THEN CHOOSE i \in DOMAIN seq :
            seq[i] = x /\ \A j \in 1..(i - 1) : seq[j] # x
    ELSE 0

\* content.splitlines(): the lines without their terminators; a terminator
\* at the very end opens no further line
RECURSIVE splitlines(_)
splitlines(content) ==
    IF content = <<>> THEN <<>>
    ELSE LET k == FirstIndex(content, NL)
         IN  IF k = 0 THEN <<content>>
             ELSE <<SubSeq(content, 1, k - 1)>>
                     \o splitlines(SubSeq(content, k + 1, Len(content)))

\* not string.strip()
Blank(string) == \A i \in DOMAIN string : string[i] \in {NL, " "}

\* lines 41-49: the text is appended to the buffer; a text that is not
\* blank asks Tk for an incremental_update unless one is pending or the
\* last one ran less than 50 ms ago (elapsed; last_update is 0 before the
\* first update, so that the test passes then)
buffer_write(r, string, elapsed) ==
    LET schedule == ~Blank(string) /\ ~r.update_pending /\ elapsed
    IN  [r EXCEPT !.buffer = @ \o string,
                  !.timers = IF schedule THEN @ + 1 ELSE @,
                  !.update_pending = IF schedule THEN TRUE ELSE @,
                  !.fresh = FALSE]

write(string) ==
    \E elapsed \in (IF redirector.updated THEN BOOLEAN ELSE {TRUE}) :
       redirector' = buffer_write(redirector, string, elapsed)

\* what the worker may print: print(text) writes the text and then "\n"
Texts == {<<"a">>, <<"b">>, <<>>, <<NL, "a">>}

\* print(text), first write
PrintText ==
    /\ pc = "console_text"
    /\ redirector.printed < MaxPrints
    /\ \E text \in Texts : write(text)
    /\ pc' = "console_newline"

\* print(text), second write: the line terminator
PrintNewline ==
    /\ pc = "console_newline"
    /\ redirector' = [buffer_write(redirector, <<NL>>, TRUE) EXCEPT !.printed = @ + 1]
    /\ pc' = "console_text"

\* lines 57-89, run by Tk's main loop when a timer set by write or flush
\* is due
incremental_update ==
    /\ redirector.timers > 0
    /\ LET lines == splitlines(redirector.buffer)
           last_displayed_index == FirstIndex(lines, redirector.last_line)
           new_lines == SubSeq(lines, last_displayed_index + 1, Len(lines))
       IN  redirector' =
              [redirector EXCEPT
                 !.timers = @ - 1,
                 !.console = @ \o new_lines,
                 !.last_line = IF new_lines # <<>>
                               THEN new_lines[Len(new_lines)] ELSE @,
                 !.update_pending = FALSE,
                 !.updated = TRUE,
                 !.fresh = TRUE]
    /\ UNCHANGED pc

\* lines 103-108, called by handle_thread_completion once the batch is over
flush ==
    /\ pc = "console_text"
    /\ redirector' = [redirector EXCEPT
                        !.timers = IF redirector.buffer # <<>> THEN @ + 1 ELSE @]
    /\ pc' = "console_flushed"

InitConsole ==
    /\ pc = "console_text"
    /\ redirector = [buffer |-> <<>>, last_line |-> <<>>,
                     update_pending |-> FALSE, updated |-> FALSE,
                     timers |-> 0, console |-> <<>>, printed |-> 0,
                     fresh |-> TRUE]
    /\ gui = <<>>
    /\ SanIdle /\ MetaIdle /\ OrgIdle /\ AlbumIdle /\ ArtIdle /\ RecIdle
    /\ CleanIdle /\ AttachIdle

NextConsole ==
    (PrintText \/ PrintNewline \/ incremental_update \/ flush)
       /\ UNCHANGED <<sanVars, metaVars, orgVars, albumVars, artVars, recVars,
                      cleanVars, attachVars, gui>>

SpecConsole == InitConsole /\ [][NextConsole]_vars

(* C30: with incremental updates, once incremental_update has run after    *)
(* the last write the console holds every line written to the buffer,      *)
(* once each and in the order written, whatever the lines are (repeated    *)
(* and empty lines included).                                              *)
C30_ConsoleShowsEveryLineOnce ==
    (pc \in {"console_text", "console_newline", "console_flushed"}
        /\ redirector.fresh)
       => redirector.console = splitlines(redirector.buffer)

---------------------------------------------------------------------------
(* The window: MusicExtractorGUI (I-MusicExtractor-GUI.py lines 110-414)   *)
(*   gui = [state, processing_indicator, status, threads, handled,         *)
(*          completions, indicators, stdout, stderr]                       *)
(*   state gives each control's Tk state; threads holds one entry          *)
(*   [at, outcome] for each worker started, at being "created"             *)
(*   (started, nothing run yet), "running" (the streams are redirected,    *)
(*   the batch runs), "signalled" (the batch is over and the completion    *)
(*   is handed to Tk) or "finished" (the finally clause has run);          *)
(*   completions are the handle_thread_completion timers waiting in Tk's   *)
(*   queue, in the order set, indicators the number of waiting             *)
(*   update_processing_indicator timers; handled counts for each worker    *)
(*   the runs of handle_thread_completion set by it.                       *)

MaxRuns == 2         \* most batches started in one session of the window

Widget(w, class, parent) == [name |-> w, class |-> class, parent |-> parent]

\* lines 140-258: the widgets of the two tabs that enable_interface walks
Widgets ==
    { Widget("main_frame", "Frame", "main_tab"),
      Widget("source_frame", "LabelFrame", "main_frame"),
      Widget("source_entry", "Entry", "source_frame"),
      Widget("source_button", "Button", "source_frame"),
      Widget("dest_frame", "LabelFrame", "main_frame"),
      Widget("dest_entry", "Entry", "dest_frame"),
      Widget("options_frame", "LabelFrame", "main_frame"),
      Widget("move_check", "Checkbutton", "options_frame"),
      Widget("extract_art_check", "Checkbutton", "options_frame"),
      Widget("attach_art_check", "Checkbutton", "options_frame"),
      Widget("force_check", "Checkbutton", "options_frame"),
      Widget("action_frame", "Frame", "main_frame"),
      Widget("organize_button", "Button", "action_frame"),
      Widget("find_unknowns_button", "Button", "action_frame"),
      Widget("find_art_button", "Button", "action_frame"),
      Widget("advanced_frame", "Frame", "advanced_tab"),
      Widget("advanced_options_frame", "LabelFrame", "advanced_frame"),
      Widget("simulate_check", "Checkbutton", "advanced_options_frame"),
      Widget("keep_empty_check", "Checkbutton", "advanced_options_frame"),
      Widget("use_folders_check", "Checkbutton", "advanced_options_frame"),
      Widget("advanced_action_frame", "LabelFrame", "advanced_frame"),
      Widget("clean_empty_button", "Button", "advanced_action_frame") }

\* widget.winfo_children()
winfo_children(parent) == {w \in Widgets : w.parent = parent}

\* isinstance(widget, (ttk.Button, ttk.Entry, ttk.Checkbutton))
IsControl(w) == w.class \in {"Button", "Entry", "Checkbutton"}

Controls == {w.name : w \in {x \in Widgets : IsControl(x)}}

\* the four buttons that start a batch
ActionButtons ==
    {"organize_button", "find_unknowns_button", "find_art_button",
     "clean_empty_button"}

\* the walk without its inner loop: only the controls that lie directly in
\* a tab's frame are reached
enable_interface_shallow(state, enable) ==
    LET reached ==
          UNION { UNION { {widget.name : widget \in
                             {x \in winfo_children(child.name) : IsControl(x)}}
                          : child \in winfo_children(tab) }
                  : tab \in {"main_tab", "advanced_tab"} }
    IN  [w \in DOMAIN state |->
            IF w \in reached THEN (IF enable THEN "normal" ELSE "disabled")
            ELSE state[w]]

\* lines 332-345: for tab, for child, for widget: a control is configured,
\* a frame's controls are configured
enable_interface(state, enable) ==
    LET OfWidget(widget) ==
            IF IsControl(widget) THEN {widget.name}
            ELSE IF widget.class \in {"Frame", "LabelFrame"}
            THEN {subwidget.name : subwidget \in
                     {x \in winfo_children(widget.name) : IsControl(x)}}
            ELSE {}
        reached ==
          UNION { UNION { UNION {OfWidget(widget) :
                                    widget \in winfo_children(child.name)}
                          : child \in winfo_children(tab) }
                  : tab \in {"main_tab", "advanced_tab"} }
    IN  [w \in DOMAIN state |->
            IF w \in reached THEN (IF enable THEN "normal" ELSE "disabled")
            ELSE state[w]]

\* lines 389-397: the status text after one turn of the indicator
Rotate(status) ==
    IF status = "Running." THEN "Running.."
    ELSE IF status = "Running.." THEN "Running..."
    ELSE "Running."

\* print(text) by a thread: two writes to sys.stdout, which reach the
\* RedirectText object only while sys.stdout is redirected
print_line(r, text, elapsed) ==
    IF gui.stdout = "redirector"
    THEN buffer_write(buffer_write(r, text, elapsed), <<NL>>, TRUE)
    ELSE r

\* lines 347-383, called by a button's command: the console is cleared,
\* the interface disabled, the indicator started (its first turn is run
\* at once and sets the next timer) and the worker thread started. Of the
\* batch function handed over only the way it ends is kept (thread_target).
run_in_thread ==
    /\ Len(gui.threads) < MaxRuns
    /\ redirector' = [redirector EXCEPT !.console = <<>>]
    /\ gui' = [gui EXCEPT
                 !.state = enable_interface(@, FALSE),
                 !.status = Rotate("Running..."),
                 !.processing_indicator = TRUE,
                 !.indicators = @ + 1,
                 !.threads = Append(@, [at |-> "created",
                                        outcome |-> "none"]),
                 !.handled = Append(@, 0)]

\* a click on a button runs its command only while the button is enabled
Clicked(button) == pc = "gui" /\ gui.state[button] = "normal"

\* line 600: run_in_thread(run_main)
organize_button ==
    Clicked("organize_button") /\ run_in_thread /\ UNCHANGED pc

\* line 761: run_in_thread(run_find_unknowns_task)
find_unknowns_button ==
    /\ Clicked("find_unknowns_button")
    /\ run_in_thread
    /\ UNCHANGED pc

\* line 946: run_in_thread(run_find_art_task)
find_art_button ==
    /\ Clicked("find_art_button")
    /\ run_in_thread
    /\ UNCHANGED pc

\* lines 948-964: without the destination directory the command returns
\* before it starts a worker; else run_in_thread(run_clean)
clean_empty_button ==
    /\ Clicked("clean_empty_button")
    /\ \E dest_dir_exists \in BOOLEAN :
          IF dest_dir_exists THEN run_in_thread
          ELSE UNCHANGED <<gui, redirector>>
    /\ UNCHANGED pc

\* lines 385-400, run by Tk when one of its timers is due
update_processing_indicator ==
    /\ pc = "gui"
    /\ gui.indicators > 0
    /\ gui' = IF gui.processing_indicator
              THEN [gui EXCEPT !.status = Rotate(@)]
              ELSE [gui EXCEPT !.indicators = @ - 1]
    /\ UNCHANGED <<pc, redirector>>

\* lines 363-365: the worker redirects the two streams
thread_target_begin(k) ==
    /\ pc = "gui"
    /\ gui.threads[k].at = "created"
    /\ gui' = [gui EXCEPT !.threads[k].at = "running",
                          !.stdout = "redirector",
                          !.stderr = "redirector"]
    /\ UNCHANGED <<pc, redirector>>

\* the completion is handed to Tk: root.after(100, lambda: ...)
Signalled(k, outcome, message) ==
    gui' = [gui EXCEPT
              !.threads[k].at = "signalled",
              !.threads[k].outcome = outcome,
              !.completions = Append(@, [run |-> k, message |-> message])]

\* lines 367-372: the batch function returns (what it prints on its way
\* is the subject of SpecConsole)
thread_target_return(k) ==
    /\ pc = "gui"
    /\ gui.threads[k].at = "running"
    /\ Signalled(k, "returned", "Completed")
    /\ UNCHANGED <<pc, redirector>>

\* an except clause that reports the error and hands nothing to Tk
thread_target_except_silent(k) ==
    /\ pc = "gui"
    /\ gui.threads[k].at = "running"
    /\ \E elapsed \in (IF redirector.updated THEN BOOLEAN ELSE {TRUE}) :
          redirector' = print_line(redirector, <<NL, "e">>, elapsed)
    /\ gui' = [gui EXCEPT !.threads[k].at = "signalled",
                          !.threads[k].outcome = "raised"]
    /\ UNCHANGED pc

\* lines 373-377: the batch function raises an Exception, which is printed
thread_target_except(k) ==
    /\ pc = "gui"
    /\ gui.threads[k].at = "running"
    /\ \E elapsed \in (IF redirector.updated THEN BOOLEAN ELSE {TRUE}) :
          redirector' = print_line(redirector, <<NL, "e">>, elapsed)
    /\ Signalled(k, "raised", "Error occurred")
    /\ UNCHANGED pc

\* lines 378-381: the finally clause
thread_target_finally(k) ==
    /\ pc = "gui"
    /\ gui.threads[k].at = "signalled"
    /\ gui' = [gui EXCEPT !.threads[k].at = "finished",
                          !.stdout = "__stdout__",
                          !.stderr = "__stderr__"]
    /\ UNCHANGED <<pc, redirector>>

\* one step of worker k
thread_target(k) ==
    \/ thread_target_begin(k)
    \/ thread_target_return(k)
    \/ thread_target_except(k)
    \/ thread_target_finally(k)

\* lines 402-414, run by Tk when the timer a worker set is due
handle_thread_completion ==
    /\ pc = "gui"
    /\ gui.completions # <<>>
    /\ LET c == Head(gui.completions)
       IN  gui' = [gui EXCEPT
                     !.completions = Tail(@),
                     !.processing_indicator = FALSE,
                     !.state = enable_interface(@, TRUE),
                     !.status = c.message,
                     !.handled[c.run] = @ + 1]
    /\ redirector' = [redirector EXCEPT
                        !.timers = IF redirector.buffer # <<>> THEN @ + 1 ELSE @]
    /\ UNCHANGED pc

\* the timers of the RedirectText object, due while the window is open
console_timer == pc = "gui" /\ incremental_update /\ UNCHANGED gui

InitGui ==
    /\ pc = "gui"
    /\ gui = [state |-> [w \in Controls |-> "normal"],
              processing_indicator |-> FALSE,
              status |-> "Ready",
              threads |-> <<>>,
              handled |-> <<>>,
              completions |-> <<>>,
              indicators |-> 0,
              stdout |-> "__stdout__",
              stderr |-> "__stderr__"]
    /\ redirector = [buffer |-> <<>>, last_line |-> <<>>,
                     update_pending |-> FALSE, updated |-> FALSE,
                     timers |-> 0, console |-> <<<<"W">>, <<"R">>>>,
                     printed |-> 0, fresh |-> TRUE]
    /\ SanIdle /\ MetaIdle /\ OrgIdle /\ AlbumIdle /\ ArtIdle /\ RecIdle
    /\ CleanIdle /\ AttachIdle

GuiFrame ==
    UNCHANGED <<sanVars, metaVars, orgVars, albumVars, artVars, recVars,
                cleanVars, attachVars>>

Worker(k) == thread_target(k) /\ GuiFrame

NextGui ==
    \/ (organize_button \/ find_unknowns_button \/ find_art_button
           \/ clean_empty_button) /\ GuiFrame
    \/ \E k \in 1..MaxRuns : k <= Len(gui.threads) /\ Worker(k)
    \/ update_processing_indicator /\ GuiFrame
    \/ handle_thread_completion /\ GuiFrame
    \/ console_timer /\ GuiFrame

SpecGui == InitGui /\ [][NextGui]_vars

\* the same window with its scheduling: a started thread gets to run, the
\* batch function ends, and Tk's main loop runs the indicator's and the
\* completion's timers when they are due
SpecGuiLive ==
    /\ SpecGui
    /\ \A k \in 1..MaxRuns : WF_vars(k <= Len(gui.threads) /\ Worker(k))
    /\ WF_vars(update_processing_indicator /\ GuiFrame)
    /\ WF_vars(handle_thread_completion /\ GuiFrame)

\* the workers started whose completion has not been handled yet
InFlight ==
    {k \in 1..Len(gui.threads) : gui.handled[k] = 0}

(* C25: in the GUI at most one batch is in flight at any time: between     *)
(* run_in_thread starting a worker and handle_thread_completion running    *)
(* for it, none of the four action buttons can start a second worker.      *)
C25_OneBatchInFlight ==
    pc = "gui" =>
       /\ Cardinality(InFlight) <= 1
       /\ InFlight # {} => \A b \in ActionButtons : gui.state[b] = "disabled"

C25_Witness ==
    /\ pc = "gui"
    /\ Len(gui.threads) = 2
    /\ gui.handled = <<1, 0>>
    /\ gui.threads[2].at = "running"

\* worker k has been started
Started(k) == pc = "gui" /\ k <= Len(gui.threads)

\* every control of the two tabs is enabled again
InterfaceEnabled == \A w \in Controls : gui.state[w] = "normal"

\* everything run_in_thread set up for worker k has been undone: its
\* completion was handled once, the interface is enabled, the indicator is
\* off with none of its timers left, and the two streams are the original
\* ones
Settled(k) ==
    /\ Started(k)
    /\ gui.handled[k] = 1
    /\ gui.threads[k].at = "finished"
    /\ InterfaceEnabled
    /\ ~gui.processing_indicator
    /\ gui.indicators = 0
    /\ gui.stdout = "__stdout__" /\ gui.stderr = "__stderr__"

(* C29: after run_in_thread has started a batch, whether the batch         *)
(* function returns or raises, the completion handler eventually runs,     *)
(* and runs once: it enables the interface and turns the indicator off,    *)
(* the indicator stops setting its timer, and sys.stdout and sys.stderr    *)
(* are the original streams again.                                         *)
C29_CompletionRunsOnce ==
    /\ [](pc = "gui" => \A k \in 1..Len(gui.threads) : gui.handled[k] <= 1)
    /\ [][(pc = "gui" /\ gui.handled' # gui.handled /\ Len(gui.handled') = Len(gui.handled))
             => (InterfaceEnabled' /\ ~gui.processing_indicator')]_vars
    /\ []<>(pc = "gui" /\ \A k \in 1..Len(gui.threads) : Settled(k))

C29_Witness ==
    /\ pc = "gui"
    /\ \E k \in 1..Len(gui.threads) :
          gui.threads[k].outcome = "raised" /\ Settled(k)

---------------------------------------------------------------------------
(* The album-art pass: find_and_attach_album_art() of I-MusicExtractor.py  *)
(* (with main() lines 1140-1157) and find_and_attach_with_cache() of       *)
(* I-MusicExtractor-GUI.py                                                 *)
(*   catalog = [album_art, track_art, wiki, dbpedia, generic]: what each   *)
(*   source answers during the pass, album_art, wiki, dbpedia and generic  *)
(*   for each album asked about, track_art for each title asked about.     *)
(*   Every file of the library has the artist "D".                         *)

\* ---- the library the pass walks

AttachPool ==
    { SrcFile("bu.mp3", <<"U">>, ".mp3", "ok",
              Tags(<<"U">>, <<"D">>, <<"B">>), FALSE),
      SrcFile("bw.mp3", <<"W">>, ".mp3", "ok",
              Tags(<<"W">>, <<"D">>, <<"B">>), FALSE),
      SrcFile("ba.mp3", <<"A">>, ".mp3", "ok",
              Tags(<<"A">>, <<"D">>, <<"B">>), TRUE),
      SrcFile("uu.mp3", <<"U">>, ".mp3", "ok",
              [title |-> <<"U">>, artist |-> <<"D">>], FALSE),
      SrcFile("uw.m4a", <<"W">>, ".m4a", "ok",
              [title |-> <<"W">>, artist |-> <<"D">>], FALSE) }

AttachIds == {f.id : f \in AttachPool}
AttachFile == [id \in AttachIds |-> CHOOSE f \in AttachPool : f.id = id]

\* where each of them lies: in the album folder "B" or in "Unknown Album"
AttachPath ==
    [id \in AttachIds |->
        <<<<"D">>,
          (IF id \in {"uu.mp3", "uw.m4a"} THEN UnknownAlbum ELSE <<"B">>),
          AttachFile[id].stem, AttachFile[id].suffix>>]

\* ---- what the sources answer

AttachAlbums == {<<"B">>, UnknownAlbum}
AttachTitles == {<<"U">>, <<"W">>, <<>>}

LastFmImage(content) ==
    [outcome |-> "ok", images |-> <<Img("extralarge", "ok", content)>>]

LastFmNoImage == [outcome |-> "ok", images |-> <<>>]

WikiNoPage == [search |-> "ok", page |-> "http", images |-> <<>>]

DBpediaEmpty == [outcome |-> "ok", results |-> <<>>]

Catalogs ==
    [album_art : {a \in [AttachAlbums -> {LastFmNoImage, LastFmImage("album")}] :
                     a[UnknownAlbum] = LastFmNoImage},
     track_art : {t \in [AttachTitles -> {LastFmNoImage, LastFmImage("track-U"),
                                          LastFmImage("track-W"),
                                          LastFmImage("track-")}] :
                     /\ t[<<"U">>] \in {LastFmNoImage, LastFmImage("track-U")}
                     /\ t[<<"W">>] \in {LastFmNoImage, LastFmImage("track-W")}
                     /\ t[<<>>] \in {LastFmNoImage, LastFmImage("track-")}},
     wiki : [AttachAlbums -> {WikiNoPage}],
     dbpedia : [AttachAlbums -> {DBpediaEmpty}],
     generic : {g \in [AttachAlbums ->
                          {DBpediaEmpty,
                           [outcome |-> "ok",
                            results |-> <<Result(TRUE, "ok", "ok", "generic")>>]}] :
                   g[UnknownAlbum] = DBpediaEmpty}]

\* the first source, in the order of search_album_art_online, that has an
\* image or raises
RECURSIVE FirstDecisive(_)
FirstDecisive(steps) ==
    IF steps = <<>> THEN Nothing
    ELSE IF Head(steps).kind # "none" THEN Head(steps)
    ELSE FirstDecisive(Tail(steps))

\* lines 475-692 as a whole: the album lookup (for a known album), the
\* track lookup by title, and the three sources asked about the album
search_album_art_online(artist, album, title) ==
    FirstDecisive(
        << IF AlbumFound(album) THEN LastFmArt(catalog.album_art[album])
           ELSE Nothing,
           LastFmArt(catalog.track_art[title]),
           search_wiki_album_art(catalog.wiki[album]),
           DBpediaArt(catalog.dbpedia[album]),
           DBpediaGenericArt(catalog.generic[album]) >>).content

\* ---- one file of the pass

\* lines 845-875 / GUI 818-836: artist, album and title from the folders
\* or from the tags
Triple(q, use_folders) ==
    IF use_folders
    THEN [artist |-> q[1], album |-> q[2], title |-> q[3]]
    ELSE LET md == extract_metadata(AttachFile[dest_files[q].id])
         IN  [artist |-> md.artist, album |-> md.album, title |-> md.title]

\* cache_key = f"{artist}|{album}"
ArtKey(t) == Join2(t.artist, t.album)

\* "Unknown Album" in str(file_path)
is_in_unknown_album(q) ==
    \E part \in {q[1], q[2], q[3]} : Contains(part, UnknownAlbum)

\* what happened to one file: the image it was given (NoImage when none),
\* whether that image came out of the cache, and whether the file was
\* moved out of its Unknown Album folder
AttachEntry(q, t, image, cached, outcome, moved) ==
    [path |-> q, artist |-> t.artist, album |-> t.album, title |-> t.title,
     image |-> image, cached |-> cached, outcome |-> outcome, moved |-> moved]

files_updated(entries) ==
    Cardinality({i \in DOMAIN entries :
                    entries[i].outcome \in {"attached", "simulated"}})

files_moved(entries) ==
    Cardinality({i \in DOMAIN entries : entries[i].moved})

\* lines 905-952 / GUI 880-912: the image is written into the file; a file
\* of an Unknown Album folder is then looked up and, when an album is found
\* and nothing lies at the destination, moved into the album's folder.
\* keeps_none: the GUI stores the resolver's None in its album cache.
AttachAndFile(q, t, image, cached, keeps_none) ==
    LET tagged == [dest_files EXCEPT ![q].art = TRUE]
        key    == Join2(t.artist, t.title)
    IN  IF ~attach_album_art(AttachFile[dest_files[q].id])
        THEN /\ log' = Append(log, AttachEntry(q, t, image, cached, "failed", FALSE))
             /\ UNCHANGED <<dest_dirs, dest_files, album_cache>>
        ELSE IF ~is_in_unknown_album(q)
        THEN /\ dest_files' = tagged
             /\ log' = Append(log, AttachEntry(q, t, image, cached, "attached", FALSE))
             /\ UNCHANGED <<dest_dirs, album_cache>>
        ELSE \E answer \in AlbumAnswers :
             LET real_album == IF key \in DOMAIN album_cache
                               THEN album_cache[key] ELSE answer
                 album_dir  == <<q[1], sanitize_filename(real_album)>>
                 dest_path  == <<q[1], sanitize_filename(real_album), q[3], q[4]>>
                 moves      == AlbumFound(real_album) /\ dest_path \notin DOMAIN tagged
             IN  /\ album_cache' =
                       IF key \notin DOMAIN album_cache
                          /\ (keeps_none \/ real_album # <<>>)
                       THEN Put(album_cache, key, real_album)
                       ELSE album_cache
                 /\ dest_dirs' = IF AlbumFound(real_album)
                                 THEN dest_dirs \cup {album_dir} ELSE dest_dirs
                 /\ dest_files' = IF moves THEN MoveFile(tagged, q, dest_path)
                                  ELSE tagged
                 /\ log' = Append(log, AttachEntry(q, t, image, cached,
                                                   "attached", moves))

\* lines 800-817: the caches are set up and the tree is walked
find_and_attach_album_art_begin ==
    /\ pc = "att_start"
    /\ opts.front = "cli"
    /\ art_cache' = EmptyFn
    /\ album_cache' = EmptyFn
    /\ listing' \in ScanOrders({q \in DOMAIN dest_files :
                                   SuffixLower(q[4]) \in supported_extensions})
    /\ idx' = 0
    /\ log' = <<>>
    /\ before' = Snapshot({}, TRUE, dest_dirs, dest_files, covers)
    /\ pc' = "att_loop"
    /\ UNCHANGED <<dest_dirs, dest_files, songs_to_lookup>>

\* lines 824-967: one audio file of the walk
find_and_attach_album_art_file ==
    /\ pc = "att_loop"
    /\ opts.front = "cli"
    /\ idx < Len(listing)
    /\ idx' = idx + 1
    /\ LET q      == listing[idx + 1]
           t      == Triple(q, opts.use_folders)
           cached == ArtKey(t) \in DOMAIN art_cache
           image  == IF cached THEN art_cache[ArtKey(t)]
                     ELSE search_album_art_online(t.artist, t.album, t.title)
       IN  IF has_album_art(dest_files[q])
           THEN /\ log' = Append(log, AttachEntry(q, t, NoImage, FALSE,
                                                  "has_art", FALSE))
                /\ UNCHANGED <<art_cache, album_cache, dest_dirs, dest_files>>
           ELSE /\ art_cache' = IF ~cached /\ image # NoImage
                                THEN Put(art_cache, ArtKey(t), image)
                                ELSE art_cache
                /\ IF image = NoImage
                   THEN /\ log' = Append(log, AttachEntry(q, t, NoImage, cached,
                                                          "not_found", FALSE))
                        /\ UNCHANGED <<album_cache, dest_dirs, dest_files>>
                   ELSE IF opts.simulate
                   THEN /\ log' = Append(log, AttachEntry(q, t, image, cached,
                                                          "simulated", FALSE))
                        /\ UNCHANGED <<album_cache, dest_dirs, dest_files>>
                   ELSE AttachAndFile(q, t, image, cached, FALSE)
    /\ UNCHANGED <<pc, listing, before, songs_to_lookup>>

\* lines 969-981 and main() lines 1149-1157: the counters are returned and
\* the empty Unknown Album folders removed unless kept or simulated
find_and_attach_album_art_end ==
    /\ pc = "att_loop"
    /\ opts.front = "cli"
    /\ idx = Len(listing)
    /\ dest_dirs' = IF ~opts.keep_empty /\ ~opts.simulate
                    THEN clean_empty_unknown_album_folders(
                             dest_dirs, dest_files, covers, FALSE).dirs
                    ELSE dest_dirs
    /\ pc' = "att_done"
    /\ UNCHANGED <<dest_files, listing, idx, log, before, art_cache,
                   album_cache, songs_to_lookup>>

\* GUI lines 795-842: the scan that collects the files without art and the
\* (artist, album) pairs to look up
find_and_attach_with_cache_begin ==
    /\ pc = "att_start"
    /\ opts.front = "gui"
    /\ \E files_to_process \in
             ScanOrders({q \in DOMAIN dest_files :
                            /\ SuffixLower(q[4]) \in supported_extensions
                            /\ ~has_album_art(dest_files[q])}) :
          LET albums_to_check ==
                 {Triple(files_to_process[k], opts.use_folders) :
                     k \in DOMAIN files_to_process}
          IN  /\ listing' = files_to_process
              /\ songs_to_lookup' =
                    IF opts.simulate THEN {}
                    ELSE {[artist |-> t.artist, album |-> t.album] :
                             t \in albums_to_check}
              /\ pc' = IF files_to_process = <<>> \/ opts.simulate
                       THEN "att_loop" ELSE "att_prefetch"
    /\ idx' = 0
    /\ log' = <<>>
    /\ before' = Snapshot({}, TRUE, dest_dirs, dest_files, covers)
    /\ UNCHANGED <<dest_dirs, dest_files, art_cache, album_cache>>

\* GUI lines 846-861: one pair of the prefetch loop; the lookup is made
\* with an empty title and its None is stored too
find_and_attach_with_cache_prefetch ==
    /\ pc = "att_prefetch"
    /\ \E pair \in songs_to_lookup :
          /\ songs_to_lookup' = songs_to_lookup \ {pair}
          /\ pc' = IF songs_to_lookup = {pair} THEN "att_loop"
                   ELSE "att_prefetch"
          /\ art_cache' =
                IF ArtKey(pair) \in DOMAIN art_cache THEN art_cache
                ELSE Put(art_cache, ArtKey(pair),
                         search_album_art_online(pair.artist, pair.album, <<>>))
    /\ UNCHANGED <<dest_dirs, dest_files, listing, idx, log, before,
                   album_cache>>

\* GUI lines 864-920: one file of the list
find_and_attach_with_cache_file ==
    /\ pc = "att_loop"
    /\ opts.front = "gui"
    /\ idx < Len(listing)
    /\ idx' = idx + 1
    /\ LET q      == listing[idx + 1]
           t      == Triple(q, opts.use_folders)
           cached == ArtKey(t) \in DOMAIN art_cache
           image  == IF cached THEN art_cache[ArtKey(t)] ELSE NoImage
       IN  IF opts.simulate
           THEN /\ log' = Append(log, AttachEntry(q, t, image, cached,
                                                  "simulated", FALSE))
                /\ UNCHANGED <<album_cache, dest_dirs, dest_files>>
           ELSE IF image = NoImage
           THEN /\ log' = Append(log, AttachEntry(q, t, NoImage, cached,
                                                  "not_found", FALSE))
                /\ UNCHANGED <<album_cache, dest_dirs, dest_files>>
           ELSE AttachAndFile(q, t, image, cached, TRUE)
    /\ UNCHANGED <<pc, listing, before, art_cache, songs_to_lookup>>

\* GUI lines 921-927: the cleanup, when files were moved and empty folders
\* are not kept, and the return
find_and_attach_with_cache_end ==
    /\ pc = "att_loop"
    /\ opts.front = "gui"
    /\ idx = Len(listing)
    /\ dest_dirs' = IF ~opts.keep_empty /\ files_moved(log) > 0
                    THEN clean_empty_unknown_album_folders(
                             dest_dirs, dest_files, covers, FALSE).dirs
                    ELSE dest_dirs
    /\ pc' = "att_done"
    /\ UNCHANGED <<dest_files, listing, idx, log, before, art_cache,
                   album_cache, songs_to_lookup>>

\* ---- the libraries and the options of a pass

AttachOptions ==
    [front : {"cli", "gui"}, simulate : BOOLEAN, use_folders : BOOLEAN,
     keep_empty : BOOLEAN]

InitAttach ==
    /\ pc = "att_start"
    /\ opts \in AttachOptions
    /\ catalog \in Catalogs
    /\ \E ids \in {s \in SUBSET AttachIds : Cardinality(s) <= MaxFiles} :
          LET paths == {AttachPath[id] : id \in ids}
          IN  /\ dest_files = [q \in paths |->
                                  LET id == CHOOSE id \in ids : AttachPath[id] = q
                                  IN  [id |-> id, art |-> AttachFile[id].art]]
              /\ dest_dirs = ParentDirs(paths)
    /\ covers = {}
    /\ dest_exists = TRUE
    /\ art_cache = EmptyFn /\ album_cache = EmptyFn
    /\ source = <<>> /\ in_source = {} /\ run = 0 /\ listing = <<>> /\ idx = 0
    /\ processed_files = <<>> /\ duplicate_count = 0
    /\ log = <<>> /\ before = [none |-> TRUE]
    /\ unknown_files = <<>> /\ songs_to_lookup = {} /\ lookups = <<>>
    /\ files_with_found_albums = 0 /\ rec_result = -1
    /\ SanIdle /\ MetaIdle /\ AlbumIdle /\ ArtIdle /\ CleanIdle /\ GuiIdle

NextAttach ==
    (\/ find_and_attach_album_art_begin
     \/ find_and_attach_album_art_file
     \/ find_and_attach_album_art_end
     \/ find_and_attach_with_cache_begin
     \/ find_and_attach_with_cache_prefetch
     \/ find_and_attach_with_cache_file
     \/ find_and_attach_with_cache_end)
       /\ UNCHANGED <<opts, source, in_source, dest_exists, covers, run,
                      processed_files, duplicate_count, unknown_files, lookups,
                      files_with_found_albums, rec_result, catalog>>
       /\ UNCHANGED <<sanVars, metaVars, albumVars, artVars, cleanVars, guiVars>>

SpecAttach == InitAttach /\ [][NextAttach]_vars

(* C28: the art cache is transparent: every file that is given an image    *)
(* out of the cache (key artist|album) is given the image that the art     *)
(* resolver returns for the file's own artist, album and title under the   *)
(* same answers of the sources, so that the pass attaches the same images  *)
(* with the cache as without it.                                           *)
C28_ArtCacheTransparent ==
    pc \in {"att_loop", "att_done"} =>
       \A i \in DOMAIN log :
          (log[i].cached /\ log[i].image # NoImage)
             => log[i].image = search_album_art_online(log[i].artist,
                                                       log[i].album,
                                                       log[i].title)

====
